---- MODULE Spec2Model ----
(***************************************************************************)
(* etime: the task lifecycle engine.                                       *)
(*                                                                         *)
(* The controller (main.py AppController), the timer engine                *)
(* (timer_engine.py), the task model (models.py), the overlay's focus and  *)
(* widget bookkeeping (overlay.py) and the storage layer (storage.py).     *)
(*                                                                         *)
(* Time is counted in timer increments: elapsed_seconds grows by           *)
(* TIMER_INCREMENT_S per tick, and estimated_seconds of a task of m        *)
(* minutes is m * UnitsPerMinute increments.  Python indices are kept      *)
(* 0-based (focused_index), TLA+ sequences are 1-based, so the focused     *)
(* task is tasks[focused_index + 1].                                       *)
(***************************************************************************)
EXTENDS Integers, Sequences, FiniteSets, TLC

VARIABLES
  tasks,                \* AppController.tasks: the in-memory active set
  focused_index,        \* OverlayWindow.focused_index (-1 = none)
  task_widgets,         \* OverlayWindow.task_widgets: ids that have a widget
  pending_removals,     \* removal animations scheduled and not yet finished
  active_alarms,        \* AppController.active_alarms
  sound_loop_active,    \* sounds._sound_loop_active
  last_completed_task,  \* AppController.last_completed_task
  last_completed_index, \* AppController.last_completed_index
  auto_paused_tasks,    \* AppController._auto_paused_tasks
  dialog,               \* TaskDialog: shown or not, and its parent context
  active_file,          \* ~/.etime/active.json
  history_file,         \* ~/.etime/history.jsonl
  temp_file,            \* the .active_*.json.tmp file of a save in progress
  save_pc,              \* position of save_active_tasks when run step by step
  reader_view,          \* what a reader of active.json last read
  now,                  \* datetime.now()
  next_id,              \* the next fresh uuid
  last,                 \* the last operation run and what it emitted
  fired,                \* <<task id, level>> of the alarms fired for a task
                        \* since it was last paused (by hand or by sleep)
  undoable              \* id of the task completed last, until that completion
                        \* is undone (None otherwise)

ctlVars == <<tasks, focused_index, task_widgets, pending_removals,
             active_alarms, sound_loop_active, last_completed_task,
             last_completed_index, auto_paused_tasks, dialog, next_id>>
saveVars == <<temp_file, save_pc, reader_view>>
vars == <<tasks, focused_index, task_widgets, pending_removals,
          active_alarms, sound_loop_active, last_completed_task,
          last_completed_index, auto_paused_tasks, dialog, active_file,
          history_file, temp_file, save_pc, reader_view, now, next_id, last,
          fired, undoable>>

----------------------------------------------------------------------------
(* Bounds of the model *)

MaxTasks == 2        \* ids ever handed out (tasks loaded plus tasks created)
MaxTreeTasks == 3    \* the same, where the order of the active set is explored
MaxIds == 3          \* the largest id any specification hands out
MaxElapsed == 2      \* ticks stop once an Ongoing task has run this long
MaxElapsedAlarm == 4 \* the same, where only the alarm escalation is explored
MaxIntervals == 2    \* work intervals recorded per task
MaxPending == 1      \* removal animations in flight at once
MaxLines == 3        \* lines of a history file given to remove_last_from_history
UnitsPerMinute == 2  \* timer increments in one minute of estimate
MaxInitTasks == 1    \* tasks in the active.json the program starts from
MaxAlarmTasks == 2   \* the same, where only the alarm escalation is explored
MaxSaveTasks == 2    \* the same, where save_active_tasks runs step by step
MaxLoadRecs == 3     \* records of an active.json given to load_active_tasks
MaxNow == 3          \* the clock stops here, where the clock is let run
NameChoices == {"task"}        \* names typed into the dialog
MinuteChoices == {1}           \* minutes set in the dialog's spin box
AmbitiousChoices == {"", "2"}  \* text of the ambitious field ("" = left empty)

----------------------------------------------------------------------------
(* models.py *)

None == -1

\* TaskState: the members, and the string value each is stored as
BACKLOG == "BACKLOG"
ONGOING == "ONGOING"
PAUSED == "PAUSED"
COMPLETED == "COMPLETED"
TaskState == {BACKLOG, ONGOING, PAUSED, COMPLETED}
StateValue(s) ==
  CASE s = BACKLOG -> "backlog"
    [] s = ONGOING -> "ongoing"
    [] s = PAUSED -> "paused"
    [] s = COMPLETED -> "completed"
StateValues == {StateValue(s) : s \in TaskState}
TaskStateOf(v) == CHOOSE s \in TaskState : StateValue(s) = v

TIMER_INCREMENT_S == 1

Max(a, b) == IF a >= b THEN a ELSE b
Min(a, b) == IF a <= b THEN a ELSE b

\* Task(...) as _on_task_submitted constructs it; __post_init__ fills id and created_at
Task(id, name, minutes, ambitious_minutes, parent_task_id) ==
  [ id |-> id,
    name |-> name,
    estimated_seconds |-> minutes * UnitsPerMinute,
    state |-> ONGOING,
    elapsed_seconds |-> 0,
    created_at |-> now,
    started_at |-> now,
    completed_at |-> None,
    ambitious_seconds |-> IF ambitious_minutes > 0
                          THEN ambitious_minutes * UnitsPerMinute ELSE None,
    linear_issue |-> None,
    last_alarm_level |-> 0,
    work_intervals |-> <<>>,
    parent_task_id |-> parent_task_id ]

start_interval(t) ==
  [t EXCEPT !.work_intervals = Append(@, [start |-> now, end |-> None])]

\* end_interval that stamps nothing
end_interval_noop(t) == t

end_interval(t) ==
  LET n == Len(t.work_intervals) IN
  IF n > 0 /\ t.work_intervals[n].end = None
  THEN [t EXCEPT !.work_intervals[n].end = now]
  ELSE t

\* compute_elapsed that trusts the stored scalar
compute_elapsed_scalar(t) == t.elapsed_seconds

\* compute_elapsed: the total over the work intervals, an open one counted up
\* to now; elapsed_seconds for a task that has no intervals
compute_elapsed(t) ==
  IF t.work_intervals = <<>> THEN t.elapsed_seconds
  ELSE LET iv == t.work_intervals
           total[n \in 0..Len(iv)] ==
             IF n = 0 THEN 0
             ELSE total[n - 1]
                  + ((IF iv[n].end # None THEN iv[n].end ELSE now) - iv[n].start)
       IN total[Len(iv)]

to_dict(t) == [t EXCEPT !.state = StateValue(t.state)]

TaskFields == {"id", "name", "estimated_seconds", "state", "elapsed_seconds",
               "created_at", "started_at", "completed_at", "ambitious_seconds",
               "linear_issue", "last_alarm_level", "work_intervals",
               "parent_task_id"}

\* the keys Task(**d) cannot do without, and those it does not know
ParsesAsTask(d) ==
  /\ {"id", "name", "estimated_seconds"} \subseteq DOMAIN d
  /\ DOMAIN d \subseteq TaskFields
  /\ "state" \in DOMAIN d
  /\ d.state \in StateValues

Get(d, k, default) == IF k \in DOMAIN d THEN d[k] ELSE default

\* from_dict setting the fields old data lacks without looking whether they
\* are there
from_dict_defaults(d) ==
  [ id |-> d.id,
    name |-> d.name,
    estimated_seconds |-> d.estimated_seconds,
    state |-> TaskStateOf(d.state),
    elapsed_seconds |-> Get(d, "elapsed_seconds", 0),
    created_at |-> Get(d, "created_at", now),
    started_at |-> Get(d, "started_at", None),
    completed_at |-> Get(d, "completed_at", None),
    ambitious_seconds |-> None,
    linear_issue |-> Get(d, "linear_issue", None),
    last_alarm_level |-> Get(d, "last_alarm_level", 0),
    work_intervals |-> <<>>,
    parent_task_id |-> None ]

from_dict(d) ==
  [ id |-> d.id,
    name |-> d.name,
    estimated_seconds |-> d.estimated_seconds,
    state |-> TaskStateOf(d.state),
    elapsed_seconds |-> Get(d, "elapsed_seconds", 0),
    created_at |-> Get(d, "created_at", now),
    started_at |-> Get(d, "started_at", None),
    completed_at |-> Get(d, "completed_at", None),
    ambitious_seconds |-> Get(d, "ambitious_seconds", None),
    linear_issue |-> Get(d, "linear_issue", None),
    last_alarm_level |-> Get(d, "last_alarm_level", 0),
    work_intervals |-> Get(d, "work_intervals", <<>>),
    parent_task_id |-> Get(d, "parent_task_id", None) ]

----------------------------------------------------------------------------
(* storage.py *)

\* a file: absent, or a JSON array of records; closed is FALSE when the text
\* is not a well-formed list (cut short, or some other JSON value)
AbsentFile == [exists |-> FALSE, recs |-> <<>>, closed |-> FALSE]
JsonFile(recs) == [exists |-> TRUE, recs |-> recs, closed |-> TRUE]

SelectParsed(recs) ==
  LET F[i \in 0..Len(recs)] ==
        IF i = 0 THEN <<>>
        ELSE IF ParsesAsTask(recs[i]) THEN Append(F[i-1], from_dict(recs[i]))
        ELSE F[i-1]
  IN F[Len(recs)]

\* an element of the array that is no JSON object (a number, a string, null)
NonObject == [json |-> "number"]
IsObject(d) == "json" \notin DOMAIN d

\* Task.from_dict raises on every record that does not parse and the loop
\* skips it; for one that is no object the handler's task_dict.get raises in
\* turn, which the outer handler answers with []
load_active_tasks(f) ==
  IF ~f.exists THEN <<>>
  ELSE IF ~f.closed THEN <<>>
  ELSE IF \E i \in 1..Len(f.recs) : ~IsObject(f.recs[i]) THEN <<>>
  ELSE SelectParsed(f.recs)

ToDicts(ts) == [i \in 1..Len(ts) |-> to_dict(ts[i])]

\* save_active_tasks run as one step: temp file written, then renamed over the target
save_active_tasks(ts) == JsonFile(ToDicts(ts))

\* history.jsonl: absent, or a sequence of lines
NoHistory == [exists |-> FALSE, lines |-> <<>>]
JsonLine(t) == [kind |-> "json", id |-> t.id, task |-> to_dict(t)]
BlankLine == [kind |-> "blank"]
GarbageLine == [kind |-> "garbage"]

\* append_to_history opening the file with 'w' instead of 'a'
append_to_history_truncating(h, t) ==
  [exists |-> TRUE, lines |-> <<JsonLine(t)>>]

append_to_history(h, t) ==
  [exists |-> TRUE, lines |-> Append(h.lines, JsonLine(t))]

\* append_to_history when open or write may raise: the except clause reports
\* the error and returns, the file is as it was
HistoryError == [type |-> "history_error"]
append_to_history_io(h, t, io_ok) ==
  IF io_ok THEN append_to_history(h, t) ELSE h

Front(s) == SubSeq(s, 1, Len(s) - 1)

\* remove_last_from_history without the comparison of the id
remove_last_unchecked(h, expected_task_id) ==
  IF ~h.exists THEN <<FALSE, h>>
  ELSE IF h.lines = <<>> THEN <<FALSE, h>>
  ELSE
    LET n == Len(h.lines)
        blankLast == h.lines[n].kind = "blank"
        lines == IF blankLast /\ n >= 2 THEN Front(h.lines) ELSE h.lines
        last_line == lines[Len(lines)]
    IN IF blankLast /\ n < 2 THEN <<FALSE, h>>
       ELSE IF last_line.kind # "json" THEN <<FALSE, h>>
       ELSE <<TRUE, [exists |-> TRUE, lines |-> Front(lines)]>>

\* remove_last_from_history: <<returned value, file afterwards>>
remove_last_from_history(h, expected_task_id) ==
  IF ~h.exists THEN <<FALSE, h>>
  ELSE IF h.lines = <<>> THEN <<FALSE, h>>
  ELSE
    LET n == Len(h.lines)
        blankLast == h.lines[n].kind = "blank"
        lines == IF blankLast /\ n >= 2 THEN Front(h.lines) ELSE h.lines
        last_line == lines[Len(lines)]
    IN IF blankLast /\ n < 2 THEN <<FALSE, h>>
       ELSE IF last_line.kind # "json" THEN <<FALSE, h>>
       ELSE IF last_line.id # expected_task_id THEN <<FALSE, h>>
       ELSE <<TRUE, [exists |-> TRUE, lines |-> Front(lines)]>>

----------------------------------------------------------------------------
(* timer_engine.py *)

\* check_alarm that knows the first level only
check_alarm_once(t) ==
  IF t.state # ONGOING THEN None
  ELSE IF t.estimated_seconds <= 0 THEN None
  ELSE IF t.elapsed_seconds >= t.estimated_seconds /\ 1 > t.last_alarm_level
       THEN 1
       ELSE None

\* check_alarm comparing with >= instead of >
check_alarm_again(t) ==
  IF t.state # ONGOING THEN None
  ELSE IF t.estimated_seconds <= 0 THEN None
  ELSE IF t.elapsed_seconds >= t.estimated_seconds
       THEN LET current_level == Max(1, t.elapsed_seconds \div t.estimated_seconds)
            IN IF current_level >= t.last_alarm_level THEN current_level ELSE None
       ELSE None

\* the alarm level to fire, or None.  ratio >= 1.0 is elapsed >= estimated and
\* int(ratio) is the integer quotient
check_alarm(t) ==
  IF t.state # ONGOING THEN None
  ELSE IF t.estimated_seconds <= 0 THEN None
  ELSE IF t.elapsed_seconds >= t.estimated_seconds
       THEN LET current_level == Max(1, t.elapsed_seconds \div t.estimated_seconds)
            IN IF current_level > t.last_alarm_level THEN current_level ELSE None
       ELSE None

AlarmEvent(task_id, level) == [type |-> "alarm", task_id |-> task_id, level |-> level]
TickEvent == [type |-> "tick"]

\* _on_alarm that tracks the alarm and never starts the sound
on_alarm_silent(st, task_id, level) ==
  IF \A i \in 1..Len(st.tasks) : st.tasks[i].id # task_id THEN st
  ELSE [st EXCEPT !.alarms = st.alarms \cup {task_id},
                  !.file = save_active_tasks(st.tasks)]

\* AppController._on_alarm, the slot of TimerEngine.alarm: it runs inside the
\* tick's loop, on the task list as it stands at that point
on_alarm(st, task_id, level) ==
  IF \A i \in 1..Len(st.tasks) : st.tasks[i].id # task_id THEN st
  ELSE LET alarms == st.alarms \cup {task_id} IN
       [st EXCEPT !.alarms = alarms,
                  !.sound = IF Cardinality(alarms) = 1 THEN TRUE ELSE @,
                  !.file = save_active_tasks(st.tasks)]

\* the loop of _on_tick counting the time of every task, whatever its state
TickTaskAnyState(st, i) ==
  [st EXCEPT !.tasks[i].elapsed_seconds = @ + TIMER_INCREMENT_S]

\* one iteration of the loop of TimerEngine._on_tick, for the task at index i
TickTask(st, i) ==
  LET t == st.tasks[i] IN
  IF t.state # ONGOING THEN st
  ELSE LET t1 == [t EXCEPT !.elapsed_seconds = @ + TIMER_INCREMENT_S]
           alarm_level == check_alarm(t1)
       IN IF alarm_level = None
          THEN [st EXCEPT !.tasks[i] = t1]
          ELSE on_alarm([st EXCEPT !.tasks[i] = [t1 EXCEPT !.last_alarm_level = alarm_level],
                                   !.events = Append(@, AlarmEvent(t.id, alarm_level))],
                        t.id, alarm_level)

\* the loop of TimerEngine._on_tick from the task at index i on; each
\* iteration works on the value the one before it left
RECURSIVE TickFrom(_, _)
TickFrom(st, i) ==
  IF i > Len(st.tasks) THEN st
  ELSE CHOOSE r \in {TickFrom(v, i + 1) : v \in {TickTask(st, i)}} : TRUE

TickLoop(st0) == TickFrom(st0, 1)

FiredBy(events) ==
  {<<events[k].task_id, events[k].level>> :
     k \in {j \in 1..Len(events) : events[j].type = "alarm"}}

\* TimerEngine._on_tick, with the slots of its signals
Tick(bound) ==
  /\ save_pc = "idle"
  /\ \A i \in 1..Len(tasks) :
       tasks[i].state = ONGOING => tasks[i].elapsed_seconds < bound
  /\ \E st \in {TickLoop([tasks |-> tasks, alarms |-> active_alarms,
                            sound |-> sound_loop_active, file |-> active_file,
                            events |-> <<>>])} :
        /\ tasks' = st.tasks
        /\ active_alarms' = st.alarms
        /\ sound_loop_active' = st.sound
        /\ active_file' = st.file
        /\ last' = [op |-> "tick", ok |-> TRUE,
                    events |-> Append(st.events, TickEvent), pre |-> None]
        /\ fired' = fired \cup FiredBy(st.events)
  /\ UNCHANGED <<focused_index, task_widgets, pending_removals,
                 last_completed_task, last_completed_index, auto_paused_tasks,
                 dialog, history_file, now, next_id, saveVars, undoable>>

OnTick == Tick(MaxElapsed)

----------------------------------------------------------------------------
(* overlay.py *)

\* OverlayWindow.get_focused_task: is there one
HasFocus == focused_index >= 0 /\ focused_index < Len(tasks)
FocusedTask == tasks[focused_index + 1]

\* list.insert(index, x): a negative index counts from the end, and an index
\* out of range is clamped.  list.remove(x): the first equal element goes
Insert(s, index, x) ==
  LET i == IF index < 0 THEN Max(0, Len(s) + index) ELSE Min(index, Len(s))
  IN SubSeq(s, 1, i) \o <<x>> \o SubSeq(s, i + 1, Len(s))
RemoveAt(s, i) == SubSeq(s, 1, i - 1) \o SubSeq(s, i + 1, Len(s))
\* a removal that takes the subtasks of the task with it
RemoveCascade(s, x) ==
  SelectSeq(s, LAMBDA t : t # x /\ t.parent_task_id # x.id)

Remove(s, x) ==
  LET i == CHOOSE j \in 1..Len(s) : s[j] = x /\ \A k \in 1..(j-1) : s[k] # x
  IN RemoveAt(s, i)

\* pending_removals is a bag of task ids: id -> how many animations run for it
PendingCount == LET ids == DOMAIN pending_removals
                    S[n \in 0..MaxIds] ==
                      IF n = 0 THEN 0
                      ELSE S[n-1] + (IF n \in ids THEN pending_removals[n] ELSE 0)
                IN S[MaxIds]

\* OverlayWindow._remove_task_animated up to the start of its timers
remove_task_animated(task_id) ==
  IF task_id \notin task_widgets THEN pending_removals
  ELSE [pending_removals EXCEPT ![task_id] = @ + 1]

\* OverlayWindow.move_focus: the focused index it leaves, given the one it
\* finds and the length of the list
MovedFocus(index, len, direction) ==
  IF len = 0 THEN index
  ELSE (index + direction) % len

\* move_focus that stops at the ends of the list
move_focus_clamped(direction) ==
  IF tasks = <<>> THEN focused_index
  ELSE Max(0, Min(Len(tasks) - 1, focused_index + direction))

\* OverlayWindow.move_focus
move_focus(direction) == MovedFocus(focused_index, Len(tasks), direction)

\* what an operation leaves in `last`: its name, whether it took effect, the
\* signals it emitted, and one fact about the state before it where noted
Op(op, ok, pre) == [op |-> op, ok |-> ok, events |-> <<>>, pre |-> pre]

----------------------------------------------------------------------------
(* main.py: AppController *)

\* start_task that lets the alarms of the task fire again
StartedTaskRearmed(t) ==
  start_interval([t EXCEPT !.state = ONGOING,
                           !.started_at = IF @ = None THEN now ELSE @,
                           !.last_alarm_level = 0])

\* start_task: the focused task afterwards
StartedTask(t) ==
  start_interval([t EXCEPT !.state = ONGOING,
                           !.started_at = IF @ = None THEN now ELSE @])

StartTask ==
  /\ Len(FocusedTask.work_intervals) < MaxIntervals
  /\ tasks' = [tasks EXCEPT ![focused_index + 1] = StartedTask(FocusedTask)]
  /\ active_file' = save_active_tasks(tasks')
  /\ last' = Op("start", TRUE, None)
  /\ UNCHANGED <<active_alarms, sound_loop_active, fired>>

\* pause_task: the alarm level of the paused task afterwards
PausedAlarmLevel(t) ==
  IF t.id \in active_alarms THEN 0 ELSE t.last_alarm_level

\* pause_task that leaves the alarm of the task in the alarm set
AlarmsKeptOnPause(t) == active_alarms

\* pause_task: the alarm set once the task is paused
AlarmsAfterPause(t) == active_alarms \ {t.id}

PausedTask(t) ==
  [end_interval([t EXCEPT !.last_alarm_level = PausedAlarmLevel(t)])
     EXCEPT !.state = PAUSED]

PauseTask ==
  /\ tasks' = [tasks EXCEPT ![focused_index + 1] = PausedTask(FocusedTask)]
  /\ active_alarms' = AlarmsAfterPause(FocusedTask)
  /\ sound_loop_active' = IF FocusedTask.id \in active_alarms /\ active_alarms' = {}
                          THEN FALSE ELSE sound_loop_active
  /\ active_file' = save_active_tasks(tasks')
  /\ last' = Op("pause", TRUE, FocusedTask.last_alarm_level)
  /\ fired' = {f \in fired : f[1] # FocusedTask.id}

NoFocus(op) ==
  /\ ~HasFocus
  /\ last' = Op(op, FALSE, None)
  /\ UNCHANGED <<tasks, active_alarms, sound_loop_active, active_file, fired>>

\* toggle_start_pause, the handler of the start/pause hotkey
ToggleStartPause ==
  /\ save_pc = "idle"
  /\ \/ NoFocus("toggle")
     \/ HasFocus /\ FocusedTask.state = ONGOING /\ PauseTask
     \/ HasFocus /\ FocusedTask.state # ONGOING /\ StartTask
  /\ UNCHANGED <<focused_index, task_widgets, pending_removals,
                 last_completed_task, last_completed_index, auto_paused_tasks,
                 dialog, history_file, now, next_id, saveVars, undoable>>

\* complete_task without the call of end_interval
CompletedTaskOpen(t) ==
  [t EXCEPT !.state = COMPLETED, !.completed_at = now]

\* complete_task: the task as it is appended to the history
CompletedTask(t) ==
  [end_interval(t) EXCEPT !.state = COMPLETED, !.completed_at = now]

\* complete_task: what it stores in last_completed_task
UndoCandidate(task) == <<task>>

\* complete_task leaving the focus where it was
FocusKept(index, len) == index

\* complete_task: the focus once the task is removed
FocusAfterRemoval(index, len) ==
  IF index >= len /\ len > 0 THEN len - 1
  ELSE IF len = 0 THEN -1
  ELSE index

\* complete_task asking for less than the ambitious time
completed_in_ambitious_strict(t) ==
  t.ambitious_seconds # None /\ t.elapsed_seconds < t.ambitious_seconds

\* complete_task: was the task completed within its ambitious time
completed_in_ambitious(t) ==
  t.ambitious_seconds # None /\ t.elapsed_seconds <= t.ambitious_seconds

CompleteTaskIO(io_ok) ==
  /\ save_pc = "idle"
  /\ \/ /\ ~HasFocus
        /\ last' = Op("complete", FALSE, None)
        /\ UNCHANGED <<tasks, focused_index, pending_removals, active_alarms,
                       sound_loop_active, last_completed_task,
                       last_completed_index, history_file, undoable>>
     \/ /\ HasFocus
        /\ PendingCount < MaxPending
        /\ LET task == CompletedTask(FocusedTask) IN
           /\ active_alarms' = active_alarms \ {task.id}
           /\ sound_loop_active' = IF task.id \in active_alarms /\ active_alarms' = {}
                                   THEN FALSE ELSE sound_loop_active
           /\ last_completed_task' = UndoCandidate(task)
           /\ undoable' = task.id
           /\ last_completed_index' = focused_index
           /\ history_file' = append_to_history_io(history_file, task, io_ok)
           /\ tasks' = Remove([tasks EXCEPT ![focused_index + 1] = task], task)
           /\ focused_index' = FocusAfterRemoval(focused_index, Len(tasks'))
           /\ pending_removals' = remove_task_animated(task.id)
           /\ last' = [op |-> "complete", ok |-> TRUE,
                       events |-> (IF io_ok THEN <<>> ELSE <<HistoryError>>) \o
                                  <<IF completed_in_ambitious(task)
                                    THEN [type |-> "ambitious_success"]
                                    ELSE [type |-> "success"]>>,
                       pre |-> None]
  /\ UNCHANGED <<task_widgets, auto_paused_tasks, dialog, active_file, now,
                 next_id, saveVars, fired>>

\* complete_task, the handler of the complete hotkey, with the disk in order
CompleteTask == CompleteTaskIO(TRUE)

\* on_fade_finished, the end of a removal animation, and complete_task's on_removed
OnFadeFinished(task_id) ==
  /\ save_pc = "idle"
  /\ pending_removals[task_id] > 0
  /\ pending_removals' = [pending_removals EXCEPT ![task_id] = @ - 1]
  /\ IF task_id \in task_widgets
     THEN /\ task_widgets' = task_widgets \ {task_id}
          /\ active_file' = save_active_tasks(tasks)
          /\ last' = Op("on_removed", TRUE, None)
     ELSE \* del self.task_widgets[task_id] raises KeyError: no callback
          /\ UNCHANGED <<task_widgets, active_file>>
          /\ last' = Op("on_removed", FALSE, None)
  /\ UNCHANGED <<tasks, focused_index, active_alarms, sound_loop_active,
                 last_completed_task, last_completed_index, auto_paused_tasks,
                 dialog, history_file, now, next_id, saveVars, fired, undoable>>

\* focus_up / focus_down
MoveFocus(direction) ==
  /\ save_pc = "idle"
  /\ focused_index' = move_focus(direction)
  /\ last' = Op("move_focus", tasks # <<>>, None)
  /\ UNCHANGED <<tasks, task_widgets, pending_removals, active_alarms,
                 sound_loop_active, last_completed_task, last_completed_index,
                 auto_paused_tasks, dialog, active_file, history_file, now,
                 next_id, saveVars, fired, undoable>>

FocusUp == MoveFocus(-1)
FocusDown == MoveFocus(1)

\* dismiss_alarm
DismissAlarm ==
  /\ save_pc = "idle"
  /\ active_alarms' = {}
  /\ sound_loop_active' = FALSE
  /\ last' = Op("dismiss", TRUE, None)
  /\ UNCHANGED <<tasks, focused_index, task_widgets, pending_removals,
                 last_completed_task, last_completed_index, auto_paused_tasks,
                 dialog, active_file, history_file, now, next_id, saveVars, fired, undoable>>

\* last_completed_task: None, or the one task kept for undo
NoTask == <<>>

\* undo_complete: the task as it is put back
RestoredTask(t) ==
  start_interval([t EXCEPT !.state = ONGOING, !.completed_at = None])

\* undo_complete that forgets to clear its undo state
KeptUndoState == last_completed_task

\* undo_complete: last_completed_task once the undo is done
ClearedUndoState == NoTask

\* undo_complete that appends the task instead of inserting it
UndoInsertAtEnd == Len(tasks)

\* undo_complete: where the task is put back
UndoInsertIndex == Min(last_completed_index, Len(tasks))

\* did the operation before this one undo a completion (1) or not (0)
AfterUndo == IF last.op = "undo" /\ last.ok THEN 1 ELSE 0

UndoComplete ==
  /\ save_pc = "idle"
  /\ IF last_completed_task = NoTask
     THEN /\ last' = Op("undo", FALSE, AfterUndo)
          /\ UNCHANGED <<tasks, focused_index, task_widgets, last_completed_task,
                         last_completed_index, active_file, history_file,
                         undoable>>
     ELSE LET task == last_completed_task[1]
              removed == remove_last_from_history(history_file, task.id)
          IN IF ~removed[1]
             THEN /\ last' = Op("undo", FALSE, AfterUndo)
                  /\ UNCHANGED <<tasks, focused_index, task_widgets,
                                 last_completed_task, last_completed_index,
                                 active_file, history_file, undoable>>
             ELSE /\ Len(task.work_intervals) < MaxIntervals
                  /\ history_file' = removed[2]
                  /\ tasks' = Insert(tasks, UndoInsertIndex, RestoredTask(task))
                  /\ task_widgets' = task_widgets \cup {task.id}
                  /\ focused_index' = UndoInsertIndex
                  /\ active_file' = save_active_tasks(tasks')
                  /\ last_completed_task' = ClearedUndoState
                  /\ last_completed_index' = -1
                  /\ undoable' = None
                  /\ last' = Op("undo", TRUE, None)
  /\ UNCHANGED <<pending_removals, active_alarms, sound_loop_active,
                 auto_paused_tasks, dialog, now, next_id, saveVars, fired>>

\* toggle_subtask taking the first task of the list as parent
ToggleParentFirst(idx) == tasks[1].id

\* toggle_subtask: the id of parent = self.tasks[idx - 1]
ToggleParent(idx) == tasks[idx].id

\* toggle_subtask
ToggleSubtask ==
  /\ save_pc = "idle"
  /\ IF ~HasFocus
     THEN /\ last' = Op("toggle_subtask", FALSE, None)
          /\ UNCHANGED <<tasks, active_file>>
     ELSE LET task == FocusedTask
              idx == focused_index
          IN IF task.parent_task_id # None
             THEN /\ tasks' = [tasks EXCEPT ![idx + 1].parent_task_id = None]
                  /\ active_file' = save_active_tasks(tasks')
                  /\ last' = Op("toggle_subtask", TRUE, None)
             ELSE IF idx <= 0
             THEN /\ last' = Op("toggle_subtask", FALSE, None)
                  /\ UNCHANGED <<tasks, active_file>>
             ELSE /\ tasks' = [tasks EXCEPT ![idx + 1].parent_task_id = ToggleParent(idx)]
                  /\ active_file' = save_active_tasks(tasks')
                  /\ last' = Op("toggle_subtask", TRUE, None)
  /\ UNCHANGED <<focused_index, task_widgets, pending_removals, active_alarms,
                 sound_loop_active, last_completed_task, last_completed_index,
                 auto_paused_tasks, dialog, history_file, now, next_id, saveVars, fired, undoable>>

\* _on_sleep that keeps the alarm level of the tasks it pauses
SleepTaskKeepLevel(t) ==
  IF t.state = ONGOING
  THEN [end_interval(t) EXCEPT !.state = PAUSED]
  ELSE t

\* _on_sleep: a task as the loop leaves it
SleepTask(t) ==
  IF t.state = ONGOING
  THEN [end_interval(t) EXCEPT !.state = PAUSED, !.last_alarm_level = 0]
  ELSE t

OnSleep ==
  /\ save_pc = "idle"
  /\ active_alarms' = {}
  /\ sound_loop_active' = IF active_alarms # {} THEN FALSE ELSE sound_loop_active
  /\ auto_paused_tasks' = {tasks[i].id : i \in {j \in 1..Len(tasks) : tasks[j].state = ONGOING}}
  /\ tasks' = [i \in 1..Len(tasks) |-> SleepTask(tasks[i])]
  /\ active_file' = IF auto_paused_tasks' # {} THEN save_active_tasks(tasks')
                    ELSE active_file
  /\ last' = Op("sleep", TRUE, None)
  /\ fired' = {f \in fired : f[1] \notin auto_paused_tasks'}
  /\ UNCHANGED <<focused_index, task_widgets, pending_removals,
                 last_completed_task, last_completed_index, dialog,
                 history_file, now, next_id, saveVars, undoable>>

\* _on_wake that resumes every paused task
WakeResumesAll(t) == t.state = PAUSED

\* _on_wake: is the task resumed, and a task as the loop leaves it
WakeResumes(t) == t.id \in auto_paused_tasks /\ t.state = PAUSED
WakeTask(t) ==
  IF WakeResumes(t) THEN start_interval([t EXCEPT !.state = ONGOING]) ELSE t

OnWake ==
  /\ save_pc = "idle"
  /\ \A i \in 1..Len(tasks) :
       WakeResumes(tasks[i]) => Len(tasks[i].work_intervals) < MaxIntervals
  /\ tasks' = [i \in 1..Len(tasks) |-> WakeTask(tasks[i])]
  /\ auto_paused_tasks' = {}
  /\ active_file' = IF \E i \in 1..Len(tasks) : WakeResumes(tasks[i])
                    THEN save_active_tasks(tasks') ELSE active_file
  /\ last' = Op("wake", TRUE,
                 Cardinality({i \in 1..Len(tasks) : WakeResumes(tasks[i])}))
  /\ UNCHANGED <<fired, undoable, focused_index, task_widgets, pending_removals, active_alarms,
                 sound_loop_active, last_completed_task, last_completed_index,
                 dialog, history_file, now, next_id, saveVars>>

----------------------------------------------------------------------------
(* task_dialog.py and AppController.new_task / _on_task_submitted *)

DialogClosed == [open |-> FALSE, parent_task_id |-> None]

\* new_task: reset the dialog, hand it the focused task as possible parent, show it
ShowDialog(bound) ==
  /\ save_pc = "idle"
  /\ next_id <= bound
  /\ dialog' = [open |-> TRUE,
                parent_task_id |-> IF HasFocus THEN FocusedTask.id ELSE None]
  /\ last' = Op("new_task", TRUE, None)
  /\ UNCHANGED <<tasks, focused_index, task_widgets, pending_removals,
                 active_alarms, sound_loop_active, last_completed_task,
                 last_completed_index, auto_paused_tasks, active_file,
                 history_file, now, next_id, saveVars, fired, undoable>>

NewTask == ShowDialog(MaxTasks)

\* QSpinBox range of the dialog's time input
MIN_TASK_MINUTES == 1
MAX_TASK_MINUTES == 999

\* str.strip() and int() on the texts the model types
Strip(text) == IF text = " " THEN "" ELSE text
IsInt(text) == text \in {"-1", "0", "1", "2", "3"}
IntOf(text) ==
  CASE text = "-1" -> -1
    [] text = "0" -> 0
    [] text = "1" -> 1
    [] text = "2" -> 2
    [] text = "3" -> 3

\* TaskDialog._submit: the ambitious minutes it emits (0 = none)
AmbitiousMinutes(ambitious_text) ==
  IF Strip(ambitious_text) = "" THEN 0 ELSE IntOf(Strip(ambitious_text))

\* TaskDialog._submit: does the input pass
SubmitAccepted(name, minutes, ambitious_text) ==
  /\ Strip(name) # ""
  /\ ~(minutes <= 0)
  /\ Strip(ambitious_text) # "" =>
       /\ IsInt(Strip(ambitious_text))
       /\ ~(IntOf(Strip(ambitious_text)) < 0)
  /\ ~(AmbitiousMinutes(ambitious_text) > 0
        /\ AmbitiousMinutes(ambitious_text) > minutes)

\* _on_task_submitted without the loop over the subtasks of the parent
SkipNothing(parent_task_id, insert_idx) == insert_idx

\* _on_task_submitted: the while loop that steps over the subtasks which
\* directly follow the parent
SkipSubtasks(parent_task_id, insert_idx) ==
  LET After[idx \in 0..Len(tasks)] ==
        IF idx < Len(tasks) /\ tasks[idx + 1].parent_task_id = parent_task_id
        THEN After[idx + 1] ELSE idx
  IN After[insert_idx]

\* _on_task_submitted putting every new task first
InsertionIndexFront(parent_task_id) == 0

\* _on_task_submitted: the index the new task is inserted at
InsertionIndex(parent_task_id) ==
  IF parent_task_id # None /\ \E i \in 1..Len(tasks) : tasks[i].id = parent_task_id
  THEN LET parent_idx == (CHOOSE i \in 1..Len(tasks) :
                            /\ tasks[i].id = parent_task_id
                            /\ \A k \in 1..(i-1) : tasks[k].id # parent_task_id) - 1
       IN SkipSubtasks(parent_task_id, parent_idx + 1)
  ELSE Len(tasks)

\* _submit followed, when the input passes, by _on_task_submitted
DialogSubmit(name, minutes, ambitious_text, as_subtask) ==
  /\ save_pc = "idle"
  /\ dialog.open
  /\ minutes \in MIN_TASK_MINUTES..MAX_TASK_MINUTES
  /\ IF ~SubmitAccepted(name, minutes, ambitious_text)
     THEN /\ last' = Op("submit", FALSE, <<name, minutes, ambitious_text>>)
          /\ UNCHANGED <<tasks, focused_index, task_widgets, dialog,
                         active_file, next_id>>
     ELSE LET parent_task_id == IF as_subtask THEN dialog.parent_task_id ELSE None
              task == start_interval(Task(next_id, Strip(name), minutes,
                                          AmbitiousMinutes(ambitious_text),
                                          parent_task_id))
              new_index == InsertionIndex(parent_task_id)
          IN /\ tasks' = Insert(tasks, new_index, task)
             /\ task_widgets' = task_widgets \cup {task.id}
             /\ focused_index' = new_index
             /\ active_file' = save_active_tasks(tasks')
             /\ next_id' = next_id + 1
             /\ dialog' = DialogClosed
             /\ last' = Op("submit", TRUE, <<name, minutes, ambitious_text>>)
  /\ UNCHANGED <<pending_removals, active_alarms, sound_loop_active,
                 last_completed_task, last_completed_index, auto_paused_tasks,
                 history_file, now, saveVars, fired, undoable>>

----------------------------------------------------------------------------
(* The program's start: AppController._initialize on the files it finds *)

\* records an active.json can hold when the program starts: written by an
\* earlier run (a task left running, a paused task), written by a version that
\* had no work_intervals, ambitious_seconds and parent_task_id yet, or a task
\* in the backlog
RunningDict(id) ==
  to_dict(start_interval(Task(id, "task", 1, 0, None)))
PausedDict(id) ==
  to_dict([Task(id, "task", 1, 1, None) EXCEPT
             !.state = PAUSED, !.elapsed_seconds = 1,
             !.work_intervals = <<[start |-> now, end |-> now]>>])
LegacyDict(id) ==
  [ id |-> id, name |-> "task", estimated_seconds |-> UnitsPerMinute,
    state |-> "ongoing", elapsed_seconds |-> 1, created_at |-> now,
    started_at |-> now, completed_at |-> None, linear_issue |-> None,
    last_alarm_level |-> 0 ]
BacklogDict(id) ==
  to_dict([Task(id, "task", 1, 0, None) EXCEPT
             !.state = BACKLOG, !.started_at = None])
InitDicts(id) == {PausedDict(id), LegacyDict(id), BacklogDict(id)}

InitRecs ==
  UNION {{recs \in [1..n -> UNION {InitDicts(id) : id \in 1..n}] :
            \A i \in 1..n : recs[i].id = i} : n \in 0..MaxInitTasks}
InitFiles == {AbsentFile} \cup {JsonFile(recs) : recs \in InitRecs}

\* an entry a previous run left in history.jsonl: of a task completed long ago
\* (OldId), or of the task of active.json, when the program was stopped after
\* complete_task had appended it and before on_removed had saved (explored
\* for a task that active.json holds paused)
OldId == 0
OldEntry(id) ==
  JsonLine([Task(id, "task", 1, 0, None) EXCEPT
              !.state = COMPLETED, !.completed_at = now,
              !.work_intervals = <<[start |-> now, end |-> now]>>])
InitHistories(f) ==
  {[exists |-> TRUE, lines |-> <<OldEntry(id)>>] :
     id \in {OldId} \cup {f.recs[i].id :
                             i \in {j \in 1..Len(f.recs) : f.recs[j].state = "paused"}}}

InitController ==
  /\ tasks = load_active_tasks(active_file)
  /\ focused_index = IF tasks # <<>> THEN 0 ELSE -1
  /\ task_widgets = {tasks[i].id : i \in 1..Len(tasks)}
  /\ pending_removals = [id \in 1..MaxIds |-> 0]
  /\ active_alarms = {}
  /\ sound_loop_active = FALSE
  /\ last_completed_task = NoTask
  /\ last_completed_index = -1
  /\ auto_paused_tasks = {}
  /\ dialog = DialogClosed
  /\ next_id = Len(tasks) + 1
  /\ temp_file = AbsentFile
  /\ save_pc = "idle"
  /\ reader_view = AbsentFile
  /\ last = Op("init", TRUE, None)
  /\ fired = {}
  /\ undoable = None

Init ==
  /\ now = 0
  /\ active_file \in InitFiles
  /\ history_file \in InitHistories(active_file)
  /\ InitController

Submit ==
  \E name \in NameChoices, minutes \in MinuteChoices,
     ambitious_text \in AmbitiousChoices, as_subtask \in BOOLEAN :
    DialogSubmit(name, minutes, ambitious_text, as_subtask)

FadeFinished == \E task_id \in 1..MaxIds : OnFadeFinished(task_id)

Next ==
  \/ OnTick
  \/ NewTask
  \/ Submit
  \/ ToggleStartPause
  \/ CompleteTask
  \/ FadeFinished
  \/ UndoComplete
  \/ ToggleSubtask
  \/ FocusUp
  \/ FocusDown
  \/ DismissAlarm
  \/ OnSleep
  \/ OnWake

Spec == Init /\ [][Next]_vars

----------------------------------------------------------------------------
(* The alarm escalation over longer runs: tasks left running by an earlier   *)
(* run, ticks up to MaxElapsedAlarm, and the operations that touch alarms    *)

AlarmInitRecs ==
  UNION {{recs \in [1..n -> UNION {{RunningDict(id), LegacyDict(id)} : id \in 1..n}] :
            \A i \in 1..n : recs[i].id = i} : n \in 1..MaxAlarmTasks}

InitAlarm ==
  /\ now = 0
  /\ active_file \in {JsonFile(recs) : recs \in AlarmInitRecs}
  /\ history_file = [exists |-> TRUE, lines |-> <<OldEntry(OldId)>>]
  /\ InitController

OnTickAlarm == Tick(MaxElapsedAlarm)

NextAlarm ==
  \/ OnTickAlarm
  \/ ToggleStartPause
  \/ DismissAlarm
  \/ FocusDown
  \/ OnSleep
  \/ OnWake

SpecAlarm == InitAlarm /\ [][NextAlarm]_vars

----------------------------------------------------------------------------
(* Where every task is: the program started from files an earlier run left  *)
(* in order, and the operations that create, complete, restore, pause and   *)
(* resume tasks                                                             *)

InitLedger ==
  /\ now = 0
  /\ active_file \in InitFiles
  /\ history_file = [exists |-> TRUE, lines |-> <<OldEntry(OldId)>>]
  /\ InitController

NextLedger ==
  \/ OnTick
  \/ NewTask
  \/ Submit
  \/ CompleteTask
  \/ FadeFinished
  \/ UndoComplete
  \/ FocusDown
  \/ OnSleep
  \/ OnWake

SpecLedger == InitLedger /\ [][NextLedger]_vars

----------------------------------------------------------------------------
(* The program left alone: tasks left running by an earlier run, and only   *)
(* the events the system delivers, ticks, sleep and wake, no hotkey          *)

NextSystem ==
  \/ OnTickAlarm
  \/ OnSleep
  \/ OnWake

SpecSystem == InitAlarm /\ [][NextSystem]_vars

----------------------------------------------------------------------------
(* The alarm escalation as time goes by: the QTimer of TimerEngine keeps    *)
(* firing (TimerEngine.start, timer_engine.py), so a tick that stays due is *)
(* taken; the user and the system may pause and resume at any moment        *)

LiveInitRecs ==
  UNION {{recs \in [1..n -> UNION {{RunningDict(id)} : id \in 1..n}] :
            \A i \in 1..n : recs[i].id = i} : n \in 1..MaxAlarmTasks}

InitLive ==
  /\ now = 0
  /\ active_file \in {JsonFile(recs) : recs \in LiveInitRecs}
  /\ history_file = [exists |-> TRUE, lines |-> <<OldEntry(OldId)>>]
  /\ InitController

NextLive ==
  \/ OnTickAlarm
  \/ ToggleStartPause
  \/ DismissAlarm
  \/ FocusDown
  \/ OnSleep
  \/ OnWake

SpecLive == InitLive /\ [][NextLive]_vars /\ WF_vars(OnTickAlarm)

----------------------------------------------------------------------------
(* The alarm set and the alarm sound under every operation that touches    *)
(* them: the alarm escalation together with completions                    *)

NextAlarmSet ==
  \/ OnTickAlarm
  \/ ToggleStartPause
  \/ DismissAlarm
  \/ CompleteTask
  \/ FadeFinished
  \/ FocusDown
  \/ OnSleep
  \/ OnWake

SpecAlarmSet == InitAlarm /\ [][NextAlarmSet]_vars

----------------------------------------------------------------------------
(* Completions before, at and after the ambitious time: tasks with and      *)
(* without an ambitious time, ticks up to MaxElapsedAlarm                   *)

AmbitiousInitRecs ==
  UNION {{recs \in [1..n -> UNION {{RunningDict(id), PausedDict(id)} : id \in 1..n}] :
            \A i \in 1..n : recs[i].id = i} : n \in 1..MaxAlarmTasks}

InitAmbitious ==
  /\ now = 0
  /\ active_file \in {JsonFile(recs) : recs \in AmbitiousInitRecs}
  /\ history_file = [exists |-> TRUE, lines |-> <<OldEntry(OldId)>>]
  /\ InitController

NextAmbitious ==
  \/ OnTickAlarm
  \/ ToggleStartPause
  \/ DismissAlarm
  \/ CompleteTask
  \/ FadeFinished
  \/ UndoComplete
  \/ FocusDown

SpecAmbitious == InitAmbitious /\ [][NextAmbitious]_vars

----------------------------------------------------------------------------
(* remove_last_from_history on the history files of up to MaxLines lines *)

NoIdLine == [kind |-> "json", id |-> None, task |-> <<>>]
HistLines == {OldEntry(1), OldEntry(2), NoIdLine, BlankLine, GarbageLine}
HistFiles ==
  {NoHistory} \cup
  {[exists |-> TRUE, lines |-> ls] :
     ls \in UNION {[1..n -> HistLines] : n \in 0..MaxLines}}

InitHist ==
  /\ now = 0
  /\ active_file = AbsentFile
  /\ history_file \in HistFiles
  /\ InitController

RemoveLast(expected_task_id) ==
  LET r == remove_last_from_history(history_file, expected_task_id) IN
  /\ history_file' = r[2]
  /\ last' = [op |-> "remove_last", ok |-> r[1], events |-> <<>>,
              pre |-> [file |-> history_file, expected |-> expected_task_id]]
  /\ UNCHANGED <<ctlVars, active_file, saveVars, now, fired, undoable>>

RemoveLastFromHistory == \E expected_task_id \in 1..2 : RemoveLast(expected_task_id)

SpecHist == InitHist /\ [][RemoveLastFromHistory]_vars

----------------------------------------------------------------------------
(* save_active_tasks step by step: the handler changes the tasks and calls   *)
(* it, mkstemp creates the temp file, json.dump writes it record by record,  *)
(* the with block closes it, os.rename puts it in place.  The dashboard      *)
(* reads active.json at any moment, and the process can be killed at any     *)
(* moment and started again.                                                 *)

SaveInitRecs ==
  UNION {{recs \in [1..n -> UNION {{RunningDict(id), PausedDict(id), LegacyDict(id)} :
                                     id \in 1..n}] :
            \A i \in 1..n : recs[i].id = i} : n \in 1..MaxSaveTasks}

InitSave ==
  /\ now = 0
  /\ active_file \in {JsonFile(recs) : recs \in SaveInitRecs}
  /\ history_file = [exists |-> TRUE, lines |-> <<OldEntry(OldId)>>]
  /\ InitController

SaveOp(op) == [op |-> op, ok |-> TRUE, events |-> <<>>, pre |-> last.pre]

\* toggle_start_pause up to its call of save_active_tasks
SaveCalled ==
  /\ save_pc = "idle"
  /\ HasFocus
  /\ FocusedTask.state # ONGOING => Len(FocusedTask.work_intervals) < MaxIntervals
  /\ tasks' = [tasks EXCEPT ![focused_index + 1] =
                 IF FocusedTask.state = ONGOING THEN PausedTask(FocusedTask)
                 ELSE StartedTask(FocusedTask)]
  /\ active_alarms' = IF FocusedTask.state = ONGOING
                      THEN active_alarms \ {FocusedTask.id} ELSE active_alarms
  /\ sound_loop_active' =
       IF FocusedTask.state = ONGOING /\ FocusedTask.id \in active_alarms
          /\ active_alarms' = {}
       THEN FALSE ELSE sound_loop_active
  /\ save_pc' = "called"
  /\ last' = [op |-> "save_called", ok |-> TRUE, events |-> <<>>,
              pre |-> active_file]
  /\ UNCHANGED <<focused_index, task_widgets, pending_removals,
                 last_completed_task, last_completed_index,
                 auto_paused_tasks, dialog, active_file, history_file,
                 temp_file, reader_view, now, next_id, fired, undoable>>

\* open(ACTIVE_FILE, 'w') in place of the temp file
SaveOpenInPlace ==
  /\ save_pc = "called"
  /\ active_file' = [exists |-> TRUE, recs |-> <<>>, closed |-> FALSE]
  /\ save_pc' = "open"
  /\ last' = SaveOp("save_open")
  /\ UNCHANGED <<ctlVars, temp_file, history_file, reader_view, now, fired,
                 undoable>>

\* tempfile.mkstemp
SaveOpen ==
  /\ save_pc = "called"
  /\ temp_file' = [exists |-> TRUE, recs |-> <<>>, closed |-> FALSE]
  /\ save_pc' = "open"
  /\ last' = SaveOp("save_open")
  /\ UNCHANGED <<ctlVars, active_file, history_file, reader_view, now, fired,
                 undoable>>

\* json.dump: one more record reaches the temp file
SaveWrite ==
  /\ save_pc = "open"
  /\ Len(temp_file.recs) < Len(tasks)
  /\ temp_file' = [temp_file EXCEPT
                     !.recs = Append(@, to_dict(tasks[Len(temp_file.recs) + 1]))]
  /\ last' = SaveOp("save_write")
  /\ UNCHANGED <<ctlVars, active_file, history_file, save_pc, reader_view, now,
                 fired, undoable>>

\* json.dump returns and the with block closes the temp file
SaveClose ==
  /\ save_pc = "open"
  /\ Len(temp_file.recs) = Len(tasks)
  /\ temp_file' = [temp_file EXCEPT !.closed = TRUE]
  /\ save_pc' = "closed"
  /\ last' = SaveOp("save_close")
  /\ UNCHANGED <<ctlVars, active_file, history_file, reader_view, now, fired,
                 undoable>>

\* os.rename(temp_path, ACTIVE_FILE)
SaveRename ==
  /\ save_pc = "closed"
  /\ active_file' = temp_file
  /\ temp_file' = AbsentFile
  /\ save_pc' = "idle"
  /\ last' = SaveOp("save_rename")
  /\ UNCHANGED <<ctlVars, history_file, reader_view, now, fired, undoable>>

\* tempfile.mkstemp raises: the except branch finds no temp_path to unlink
SaveCreateFail ==
  /\ save_pc = "called"
  /\ save_pc' = "idle"
  /\ last' = SaveOp("save_create_fail")
  /\ UNCHANGED <<ctlVars, active_file, history_file, temp_file, reader_view,
                 now, fired, undoable>>

\* the except branch without the unlink
SaveFailKeepTemp ==
  /\ save_pc \in {"open", "closed"}
  /\ save_pc' = "idle"
  /\ last' = SaveOp("save_fail")
  /\ UNCHANGED <<ctlVars, active_file, history_file, temp_file, reader_view,
                 now, fired, undoable>>

\* the except branch: the write or the rename raised, the temp file is unlinked
SaveFail ==
  /\ save_pc \in {"open", "closed"}
  /\ temp_file' = AbsentFile
  /\ save_pc' = "idle"
  /\ last' = SaveOp("save_fail")
  /\ UNCHANGED <<ctlVars, active_file, history_file, reader_view, now, fired,
                 undoable>>

\* the process is killed during the save and started again: _initialize
\* loads active.json; what the save left on disk stays
Crash ==
  /\ save_pc # "idle"
  /\ tasks' = load_active_tasks(active_file)
  /\ focused_index' = IF tasks' # <<>> THEN 0 ELSE -1
  /\ task_widgets' = {tasks'[i].id : i \in 1..Len(tasks')}
  /\ pending_removals' = [id \in 1..MaxIds |-> 0]
  /\ active_alarms' = {}
  /\ sound_loop_active' = FALSE
  /\ last_completed_task' = NoTask
  /\ last_completed_index' = -1
  /\ auto_paused_tasks' = {}
  /\ dialog' = DialogClosed
  /\ save_pc' = "idle"
  /\ last' = SaveOp("crash")
  /\ fired' = {}
  /\ undoable' = None
  /\ UNCHANGED <<active_file, history_file, temp_file, reader_view, now, next_id>>

\* the dashboard server reads active.json
ReaderRead ==
  /\ reader_view' = active_file
  /\ UNCHANGED <<ctlVars, active_file, history_file, temp_file, save_pc, now,
                 last, fired, undoable>>

NextSave ==
  \/ SaveCalled
  \/ SaveOpen
  \/ SaveWrite
  \/ SaveClose
  \/ SaveRename
  \/ SaveCreateFail
  \/ SaveFail
  \/ Crash
  \/ ReaderRead

SpecSave == InitSave /\ [][NextSave]_vars

----------------------------------------------------------------------------
(* load_active_tasks on the files of up to MaxLoadRecs records, sound and    *)
(* unsound ones, as _initialize calls it when the program starts             *)

BadStateDict(id) == [PausedDict(id) EXCEPT !.state = "bogus"]
NoNameDict(id) ==
  [ id |-> id, estimated_seconds |-> UnitsPerMinute, state |-> "paused" ]
NoStateDict(id) ==
  [ id |-> id, name |-> "task", estimated_seconds |-> UnitsPerMinute ]
LoadDicts(id) ==
  {PausedDict(id), LegacyDict(id), BadStateDict(id), NoNameDict(id),
   NoStateDict(id), NonObject}
LoadFiles ==
  {AbsentFile, [exists |-> TRUE, recs |-> <<>>, closed |-> FALSE]} \cup
  {JsonFile(recs) :
     recs \in UNION {{r \in [1..n -> UNION {LoadDicts(id) : id \in 1..n}] :
                        \A i \in 1..n : IsObject(r[i]) => r[i].id = i} :
                     n \in 0..MaxLoadRecs}}

InitLoad ==
  /\ now = 0
  /\ active_file \in LoadFiles
  /\ history_file = [exists |-> TRUE, lines |-> <<OldEntry(OldId)>>]
  /\ InitController

\* the program is stopped and started again: _initialize
Restart ==
  /\ save_pc = "idle"
  /\ tasks' = load_active_tasks(active_file)
  /\ focused_index' = IF tasks' # <<>> THEN 0 ELSE -1
  /\ task_widgets' = {tasks'[i].id : i \in 1..Len(tasks')}
  /\ pending_removals' = [id \in 1..MaxIds |-> 0]
  /\ active_alarms' = {}
  /\ sound_loop_active' = FALSE
  /\ last_completed_task' = NoTask
  /\ last_completed_index' = -1
  /\ auto_paused_tasks' = {}
  /\ dialog' = DialogClosed
  /\ last' = Op("restart", TRUE, None)
  /\ fired' = {}
  /\ undoable' = None
  /\ UNCHANGED <<active_file, history_file, saveVars, now, next_id>>

SpecLoad == InitLoad /\ [][Restart]_vars

----------------------------------------------------------------------------
(* The new-task dialog alone: the hotkey opens it, and the user submits any   *)
(* of these names, spin box values and texts of the ambitious field           *)

DialogNames == {"", " ", "task"}
DialogMinutes == {1, 2}
DialogTexts == {"", " ", "0", "1", "2", "3", "-1", "x"}

SubmitDialog ==
  \E name \in DialogNames, minutes \in DialogMinutes,
     ambitious_text \in DialogTexts, as_subtask \in BOOLEAN :
    DialogSubmit(name, minutes, ambitious_text, as_subtask)

NextDialog ==
  \/ NewTask
  \/ SubmitDialog
  \/ FocusUp
  \/ FocusDown

SpecDialog == Init /\ [][NextDialog]_vars

----------------------------------------------------------------------------
(* The order of the active set over more tasks: creating tasks and          *)
(* subtasks, completing and restoring them, and moving the focus, from an    *)
(* empty active set                                                           *)

InitTree ==
  /\ now = 0
  /\ active_file = AbsentFile
  /\ history_file \in InitHistories(active_file)
  /\ InitController

NewTaskTree == ShowDialog(MaxTreeTasks)

NextTree ==
  \/ NewTaskTree
  \/ Submit
  \/ CompleteTask
  \/ FadeFinished
  \/ UndoComplete
  \/ ToggleSubtask
  \/ FocusUp
  \/ FocusDown

SpecTree == InitTree /\ [][NextTree]_vars

----------------------------------------------------------------------------
(* Sleep and wake: tasks started and paused by hand, alarms ringing, and the *)
(* machine going to sleep and waking in between                              *)

NextSleep ==
  \/ OnTick
  \/ NewTask
  \/ Submit
  \/ ToggleStartPause
  \/ FocusUp
  \/ FocusDown
  \/ DismissAlarm
  \/ OnSleep
  \/ OnWake

SpecSleep == Init /\ [][NextSleep]_vars

----------------------------------------------------------------------------
(* Operations that cannot do what they are asked: hotkeys pressed with no   *)
(* task focused or nothing to undo, and completion on a disk that may fail   *)
(* (the write of history.jsonl raises an I/O error or not)                   *)

CompleteTaskFault == \E io_ok \in BOOLEAN : CompleteTaskIO(io_ok)

NextFault ==
  \/ NewTask
  \/ Submit
  \/ CompleteTaskFault
  \/ FadeFinished
  \/ UndoComplete
  \/ ToggleStartPause
  \/ ToggleSubtask
  \/ FocusUp
  \/ FocusDown

SpecFault == Init /\ [][NextFault]_vars

----------------------------------------------------------------------------
(* The clock: datetime.now() advances between the operations on the tasks   *)
(* that the program found in active.json                                     *)

AdvanceClock ==
  /\ save_pc = "idle"
  /\ now < MaxNow
  /\ now' = now + 1
  /\ UNCHANGED <<tasks, focused_index, task_widgets, pending_removals,
                 active_alarms, sound_loop_active, last_completed_task,
                 last_completed_index, auto_paused_tasks, dialog, active_file,
                 history_file, next_id, saveVars, last, fired, undoable>>

NextClock ==
  \/ AdvanceClock
  \/ OnTick
  \/ ToggleStartPause
  \/ CompleteTask
  \/ FadeFinished
  \/ UndoComplete
  \/ OnSleep
  \/ OnWake

SpecClock == Init /\ [][NextClock]_vars

----------------------------------------------------------------------------
(* A task of an earlier version, stored with its elapsed time and without   *)
(* work intervals, under the operations that record intervals               *)

LegacyId == 1

InitLegacy ==
  /\ now = 0
  /\ active_file = JsonFile(<<LegacyDict(LegacyId)>>)
  /\ history_file = [exists |-> TRUE, lines |-> <<OldEntry(OldId)>>]
  /\ InitController

NextLegacy ==
  \/ AdvanceClock
  \/ OnTick
  \/ ToggleStartPause
  \/ CompleteTask
  \/ FadeFinished
  \/ UndoComplete

SpecLegacy == InitLegacy /\ [][NextLegacy]_vars

----------------------------------------------------------------------------
(* Properties of the controller, checked under Spec *)

OpenIntervals(t) ==
  {k \in 1..Len(t.work_intervals) : t.work_intervals[k].end = None}
ActiveIds == {tasks[i].id : i \in 1..Len(tasks)}
LastLine(h) == h.lines[Len(h.lines)]

\* C1 as stated: every task of the active set has at most one open work
\* interval, and has an open interval if and only if its state is Ongoing
C1_OpenIffOngoing ==
  \A i \in 1..Len(tasks) :
    /\ Cardinality(OpenIntervals(tasks[i])) <= 1
    /\ (OpenIntervals(tasks[i]) # {}) <=> (tasks[i].state = ONGOING)

\* C1 amended: every task of the active set has at most one open work
\* interval, it is the last one, a task that has one is Ongoing, and an
\* Ongoing task has one unless it has no work interval at all (a task loaded
\* Ongoing from a record without work_intervals, until it is next resumed)
C1_OpenIntervalInvariant ==
  \A i \in 1..Len(tasks) :
    LET t == tasks[i] IN
    /\ Cardinality(OpenIntervals(t)) <= 1
    /\ OpenIntervals(t) \subseteq {Len(t.work_intervals)}
    /\ OpenIntervals(t) # {} => t.state = ONGOING
    /\ (t.state = ONGOING /\ t.work_intervals # <<>>) => OpenIntervals(t) # {}

\* a task resumed after a pause: one closed interval, then the open one
C1_Witness ==
  /\ last.op \in {"start", "wake"}
  /\ \E i \in 1..Len(tasks) :
       /\ tasks[i].state = ONGOING
       /\ Len(tasks[i].work_intervals) = 2
       /\ OpenIntervals(tasks[i]) = {2}

\* C3 as stated: pausing an Ongoing task whose last_alarm_level is above 0
\* leaves it at 0, whether or not its alarm was dismissed before
C3_PauseResetsAlarmLevel ==
  (last.op = "pause" /\ last.ok /\ last.pre > 0) =>
    FocusedTask.last_alarm_level = 0

\* the fields of a task or record other than those that completing and
\* restoring a task set
SameButLifecycle(a, b) ==
  \A k \in TaskFields \ {"state", "completed_at", "work_intervals"} : a[k] = b[k]

\* the work intervals ws with the open one, if any, closed
Closed(ws) ==
  [k \in 1..Len(ws) |-> IF ws[k].end = None THEN [ws[k] EXCEPT !.end = now]
                        ELSE ws[k]]

\* C4: complete on a focused Ongoing or Paused task appends exactly one entry
\* to the history: the task with its open interval closed, Completed and with
\* completed_at stamped; the task leaves the active set, whose other tasks
\* keep their order, and its id leaves the alarm set
C4_CompleteEffects ==
  [][(last'.op = "complete" /\ HasFocus
      /\ tasks[focused_index + 1].state \in {ONGOING, PAUSED}) =>
       LET t == tasks[focused_index + 1]
           entry == LastLine(history_file')
       IN /\ last'.ok
          /\ history_file'.exists
          /\ history_file'.lines = Append(history_file.lines, entry)
          /\ entry.kind = "json"
          /\ entry.id = t.id
          /\ entry.task.state = "completed"
          /\ entry.task.completed_at # None
          /\ entry.task.work_intervals = Closed(t.work_intervals)
          /\ OpenIntervals(entry.task) = {}
          /\ SameButLifecycle(entry.task, t)
          /\ tasks' = RemoveAt(tasks, focused_index + 1)
          /\ active_alarms' = active_alarms \ {t.id}]_vars

\* an Ongoing task whose alarm rings is completed while another task stays
C4_Witness ==
  /\ last.op = "complete"
  /\ last.ok
  /\ Len(tasks) = 1
  /\ last_completed_task # <<>>
  /\ last_completed_task[1].last_alarm_level > 0
  /\ Len(last_completed_task[1].work_intervals) = 1
  /\ active_alarms = {}
  /\ LastLine(history_file).id = last_completed_task[1].id

\* C5: undo while the last completion is not yet undone takes that task's
\* entry off the end of the history and puts the task back at index
\* min(index it was completed at, size of the active set), Ongoing, with
\* completed_at cleared and one new open interval after its closed ones, and
\* focuses it; the index it was completed at is the one complete_task recorded
C5_UndoRestores ==
  [][/\ (last'.op = "complete" /\ last'.ok) =>
          /\ last_completed_index' = focused_index
          /\ tasks' = RemoveAt(tasks, focused_index + 1)
     /\ (last'.op = "undo" /\ undoable # None) =>
          LET entry == LastLine(history_file)
              index == Min(last_completed_index, Len(tasks))
              t == tasks'[index + 1]
          IN /\ last'.ok
             /\ entry.id = undoable
             /\ history_file'.lines = Front(history_file.lines)
             /\ Len(tasks') = Len(tasks) + 1
             /\ tasks' = Insert(tasks, index, t)
             /\ t.id = undoable
             /\ t.state = ONGOING
             /\ t.completed_at = None
             /\ OpenIntervals(entry.task) = {}
             /\ t.work_intervals =
                  Append(entry.task.work_intervals, [start |-> now, end |-> None])
             /\ SameButLifecycle(t, entry.task)
             /\ focused_index' = index]_vars

\* a task completed at index 0 is put back in front of the task that stayed
C5_Witness ==
  /\ last.op = "undo"
  /\ last.ok
  /\ Len(tasks) = 2
  /\ focused_index = 0
  /\ tasks[1].state = ONGOING
  /\ Len(tasks[1].work_intervals) = 2
  /\ OpenIntervals(tasks[1]) = {2}

\* C6: undo when no completion awaits undoing (none ever happened, or the last
\* one was undone already) fails and leaves the active set, the focus, the
\* alarm set and the history unchanged
C6_SecondUndoFails ==
  [][(last'.op = "undo" /\ undoable = None) =>
       /\ ~last'.ok
       /\ UNCHANGED <<tasks, focused_index, active_alarms, history_file>>]_vars

\* the state after an undo that failed right after an undo that succeeded:
\* the restored task is in the active set once
C6_Witness ==
  /\ last.op = "undo"
  /\ ~last.ok
  /\ last.pre = 1
  /\ undoable = None
  /\ Len(history_file.lines) = 1
  /\ Cardinality(ActiveIds) = Len(tasks)

\* C7: a step brings a task back into the active set, or takes an entry off
\* the history, only as the undo of the most recent completion, not yet
\* undone: the task and the entry are that completion's, the entry is the
\* last one, and afterwards no completion awaits undoing
C7_UndoOnlyMostRecent ==
  [][LET back == {id \in ActiveIds' \ ActiveIds : id < next_id}
         shorter == Len(history_file'.lines) < Len(history_file.lines)
     IN (back # {} \/ shorter \/ (last'.op = "undo" /\ last'.ok)) =>
          /\ last'.op = "undo"
          /\ undoable # None
          /\ back = {undoable}
          /\ history_file.lines # <<>>
          /\ history_file'.lines = Front(history_file.lines)
          /\ LastLine(history_file).id = undoable
          /\ undoable' = None]_vars

\* two tasks were completed one after the other and the second was restored:
\* the entry of the first is the last of the history again
C7_Witness ==
  /\ last.op = "undo"
  /\ last.ok
  /\ Len(history_file.lines) = 2
  /\ Len(tasks) = 1
  /\ LastLine(history_file).id \notin ActiveIds
  /\ LastLine(history_file).id # OldId

\* C9: across a step the history is unchanged, or gains one entry at its end
\* (a completion, the entry being the completed task's), or loses its last
\* entry (an undo, the entry being that of the task completed last); the
\* entries before the last are never touched
C9_HistoryAppendOnly ==
  [][LET old == history_file.lines
         new == history_file'.lines
     IN \/ history_file' = history_file
        \/ /\ Len(new) = Len(old) + 1
           /\ SubSeq(new, 1, Len(old)) = old
           /\ history_file'.exists
           /\ last'.op = "complete"
           /\ HasFocus
           /\ new[Len(new)].id = tasks[focused_index + 1].id
        \/ /\ old # <<>>
           /\ new = Front(old)
           /\ history_file'.exists
           /\ last'.op = "undo"
           /\ old[Len(old)].id = undoable]_vars

\* a history of three entries: the old one and two completions
C9_Witness ==
  /\ last.op = "complete"
  /\ Len(history_file.lines) = 3
  /\ history_file.lines[1].id = OldId
  /\ history_file.lines[2].id # history_file.lines[3].id

----------------------------------------------------------------------------
(* Properties of the alarm escalation, checked under SpecAlarm *)

AlarmEvents(events) ==
  {k \in 1..Len(events) : events[k].type = "alarm"}

\* C2: a tick fires the alarm of an Ongoing task exactly when, with elapsed
\* counted after the tick's increment, elapsed >= estimated and
\* level = max(1, elapsed div estimated) is above last_alarm_level; it fires
\* once, carries that level, and last_alarm_level becomes that level
\* (otherwise it stays); the level was not fired for the task since it was
\* last paused by hand or by sleep; no other step fires an alarm
C2_AlarmFiresOncePerLevel ==
  [][/\ last'.op # "tick" => AlarmEvents(last'.events) = {}
     /\ last'.op = "tick" =>
          /\ Len(tasks') = Len(tasks)
          /\ \A k \in AlarmEvents(last'.events) :
               \E i \in 1..Len(tasks) : tasks[i].id = last'.events[k].task_id
                                        /\ tasks[i].state = ONGOING
          /\ \A i \in 1..Len(tasks) :
               LET t == tasks[i]
                   elapsed == t.elapsed_seconds + TIMER_INCREMENT_S
                   level == Max(1, elapsed \div t.estimated_seconds)
                   mine == {k \in AlarmEvents(last'.events) :
                              last'.events[k].task_id = t.id}
               IN IF t.state = ONGOING /\ elapsed >= t.estimated_seconds
                     /\ level > t.last_alarm_level
                  THEN /\ Cardinality(mine) = 1
                       /\ \A k \in mine : last'.events[k].level = level
                       /\ tasks'[i].last_alarm_level = level
                       /\ <<t.id, level>> \notin fired
                       /\ <<t.id, level>> \in fired'
                  ELSE /\ mine = {}
                       /\ tasks'[i].last_alarm_level = t.last_alarm_level]_vars

\* level 2 fires for a task whose level 1 fired earlier in the same run
C2_Witness ==
  /\ last.op = "tick"
  /\ \E k \in AlarmEvents(last.events) :
       /\ last.events[k].level = 2
       /\ <<last.events[k].task_id, 1>> \in fired
       /\ <<last.events[k].task_id, 2>> \in fired

----------------------------------------------------------------------------
(* Properties of remove_last_from_history, checked under SpecHist *)

\* the index of the last line that is not blank, 0 if there is none
LastNonEmpty(ls) ==
  LET full == {k \in 1..Len(ls) : ls[k].kind # "blank"}
  IN IF full = {} THEN 0 ELSE CHOOSE k \in full : \A j \in full : j <= k

\* C8: remove_last_from_history returns True only if the last non-empty line
\* of the file is an entry whose id is the expected one, and then the file
\* is left with the lines before that one, unchanged and in order; whenever
\* it returns False (file absent or empty, other id, unparsable last line,
\* only blank lines) the file is as it was
C8_RemoveLastChecked ==
  last.op = "remove_last" =>
    LET h == last.pre.file
        k == LastNonEmpty(h.lines)
        matches == /\ h.exists
                   /\ k > 0
                   /\ h.lines[k].kind = "json"
                   /\ h.lines[k].id = last.pre.expected
    IN /\ last.ok => /\ matches
                     /\ history_file.exists
                     /\ history_file.lines = SubSeq(h.lines, 1, k - 1)
       /\ ~last.ok => history_file = h
       /\ ~matches => ~last.ok /\ history_file = h

\* the matching entry is removed from under a trailing blank line and the
\* entry before it stays
C8_Witness ==
  /\ last.op = "remove_last"
  /\ last.ok
  /\ Len(last.pre.file.lines) = 3
  /\ last.pre.file.lines[3] = BlankLine
  /\ history_file.lines = <<last.pre.file.lines[1]>>
  /\ last.pre.file.lines[1].kind = "json"
  /\ last.pre.file.lines[1].id # last.pre.expected

----------------------------------------------------------------------------
(* Properties of save_active_tasks, checked under SpecSave *)

Complete(f) ==
  f.exists => f.closed /\ \A i \in 1..Len(f.recs) : ParsesAsTask(f.recs[i])

\* C10: at every point of a save, and after a crash or a failure in it,
\* active.json holds the complete set saved before (last.pre) or, once the
\* rename is done, the complete set being saved; a reader never reads a
\* file without its end
C10_SaveAtomic ==
  /\ Complete(active_file)
  /\ Complete(reader_view)
  /\ last.op # "init" =>
       active_file \in {last.pre, JsonFile(ToDicts(tasks))}
  /\ save_pc # "idle" => active_file = last.pre
  /\ last.op \in {"save_fail", "crash"} => active_file = last.pre
  /\ last.op = "save_rename" => active_file = JsonFile(ToDicts(tasks))

\* the process was killed with the temp file half written, and a reader read
\* active.json afterwards: it holds the set saved before
C10_Witness ==
  /\ last.op = "crash"
  /\ temp_file.exists
  /\ ~temp_file.closed
  /\ Len(temp_file.recs) = 1
  /\ Len(active_file.recs) = 2
  /\ reader_view = active_file
  /\ active_file = last.pre

\* C11: the active set loaded from what save_active_tasks wrote is the saved
\* one, task by task and field by field, whether a task has no interval,
\* closed intervals or an open one
C11_SaveLoadRoundTrip ==
  /\ load_active_tasks(save_active_tasks(tasks)) = tasks
  /\ last.op = "save_rename" => load_active_tasks(active_file) = tasks

\* a save of two tasks: one without any interval, one with a closed and an
\* open interval
C11_Witness ==
  /\ last.op = "save_rename"
  /\ Len(tasks) = 2
  /\ \E i, j \in 1..2 :
       /\ tasks[i].work_intervals = <<>>
       /\ Len(tasks[j].work_intervals) = 2
       /\ OpenIntervals(tasks[j]) = {2}
       /\ tasks[j].work_intervals[1].end # None

----------------------------------------------------------------------------
(* Properties of load_active_tasks, checked under SpecLoad *)

ParsesRecord(d) == IsObject(d) /\ ParsesAsTask(d)

\* C12 as stated: load_active_tasks returns the empty list for an absent
\* file or one that holds no well-formed list; otherwise it returns, in
\* their order, exactly the records that parse, the fields ambitious_seconds,
\* work_intervals and parent_task_id defaulting to None, empty, None
C12_LoadSkipsBadRecords ==
  LET f == active_file
      good == SelectSeq(f.recs, ParsesRecord)
  IN IF ~f.exists \/ ~f.closed THEN tasks = <<>>
     ELSE /\ Len(tasks) = Len(good)
          /\ \A k \in 1..Len(good) :
               /\ tasks[k].id = good[k].id
               /\ tasks[k].name = good[k].name
               /\ "ambitious_seconds" \notin DOMAIN good[k] =>
                    tasks[k].ambitious_seconds = None
               /\ "work_intervals" \notin DOMAIN good[k] =>
                    tasks[k].work_intervals = <<>>
               /\ "parent_task_id" \notin DOMAIN good[k] =>
                    tasks[k].parent_task_id = None


\* C13: the input that the validation rules of task creation let pass: a
\* non-empty name, 1..999 minutes, and an ambitious time that, if one is
\* given, is a number > 0 and <= the minutes
ValidInput(in) ==
  /\ Strip(in[1]) # ""
  /\ in[2] \in 1..999
  /\ Strip(in[3]) # "" =>
       /\ IsInt(Strip(in[3]))
       /\ IntOf(Strip(in[3])) > 0
       /\ IntOf(Strip(in[3])) <= in[2]

\* C13: a submission is rejected, leaving the active set, the focus and
\* active.json as they are, exactly when its input is not valid, and every
\* task created has 0 < ambitious_seconds <= estimated_seconds if it has
\* ambitious_seconds at all
C13_NewTaskValidation ==
  [][last'.op = "submit" =>
       /\ last'.ok <=> ValidInput(last'.pre)
       /\ ~last'.ok => UNCHANGED <<tasks, focused_index, active_file>>
       /\ \A i \in 1..Len(tasks') :
            tasks'[i].ambitious_seconds # None =>
              /\ 0 < tasks'[i].ambitious_seconds
              /\ tasks'[i].ambitious_seconds <= tasks'[i].estimated_seconds]_vars

\* C14: toggle_subtask gives the focused task the id of the task right above
\* it as parent if it has no parent and is not the first, clears the parent
\* if it has one, wherever it stands, and does nothing to a first task
\* without parent; no other field, no other task, not the order, the focus
\* or the alarm set change
C14_ToggleSubtask ==
  [][last'.op = "toggle_subtask" =>
       /\ focused_index' = focused_index
       /\ active_alarms' = active_alarms
       /\ IF ~HasFocus THEN tasks' = tasks
          ELSE LET i == focused_index + 1
                   B == tasks[i]
               IN tasks' = [tasks EXCEPT ![i].parent_task_id =
                              IF B.parent_task_id # None THEN None
                              ELSE IF i > 1 THEN tasks[i - 1].id
                              ELSE None]]_vars

\* a task that is not the first has just been made the subtask of the one above
C14_Witness ==
  /\ last.op = "toggle_subtask" /\ last.ok
  /\ focused_index = 2 /\ Len(tasks) = 3
  /\ tasks[3].parent_task_id = tasks[2].id

\* C15: after _on_sleep no task is Ongoing: each task that was Ongoing is
\* Paused, has no open interval (the open one got its end, nothing else of
\* the task changed) and alarm level 0; the alarm set is empty; the tasks that
\* were not Ongoing are as they were
C15_SleepPausesAll ==
  [][last'.op = "sleep" =>
       /\ active_alarms' = {}
       /\ Len(tasks') = Len(tasks)
       /\ \A i \in 1..Len(tasks') : tasks'[i].state # ONGOING
       /\ \A i \in 1..Len(tasks) :
            IF tasks[i].state = ONGOING
            THEN tasks'[i] = [tasks[i] EXCEPT
                                !.state = PAUSED,
                                !.last_alarm_level = 0,
                                !.work_intervals = Closed(tasks[i].work_intervals)]
            ELSE tasks'[i] = tasks[i]]_vars

\* the machine went to sleep while an alarm rang for a running task, with
\* another task paused by hand before
C15_Witness ==
  /\ last.op = "sleep"
  /\ auto_paused_tasks # {}
  /\ \E i \in 1..Len(tasks) :
       /\ tasks[i].id \in auto_paused_tasks
       /\ tasks[i].elapsed_seconds >= tasks[i].estimated_seconds
       /\ tasks[i].last_alarm_level = 0
       /\ tasks[i].state = PAUSED
  /\ \E j \in 1..Len(tasks) : tasks[j].id \notin auto_paused_tasks

\* the ids of the tasks that a step takes from Ongoing to Paused
PausedByStep ==
  {tasks[i].id : i \in {j \in 1..Len(tasks) :
                          /\ j <= Len(tasks')
                          /\ tasks[j].state = ONGOING
                          /\ tasks'[j].state = PAUSED}}

\* what C16 says of one step
WakeStep ==
  /\ last'.op = "sleep" => auto_paused_tasks' = PausedByStep
  /\ last'.op \notin {"sleep", "wake"} => auto_paused_tasks' = auto_paused_tasks
  /\ last'.op = "wake" =>
       /\ auto_paused_tasks' = {}
       /\ Len(tasks') = Len(tasks)
       /\ \A i \in 1..Len(tasks) :
            IF tasks[i].id \in auto_paused_tasks /\ tasks[i].state = PAUSED
            THEN tasks'[i] = [tasks[i] EXCEPT
                                !.state = ONGOING,
                                !.work_intervals =
                                   Append(@, [start |-> now, end |-> None])]
            ELSE tasks'[i] = tasks[i]
       /\ auto_paused_tasks = {} => tasks' = tasks

\* C16: the tasks remembered for the wake are exactly those the preceding
\* sleep paused (none at the start, none after a wake, and no other operation
\* changes them); _on_wake makes Ongoing, with a new open interval and nothing
\* else changed, exactly the remembered tasks that are Paused and in the
\* active set, and leaves every other task, so also a task paused by hand
\* before the sleep, as it was; a wake with nothing remembered changes no task
C16_WakeResumesAutoPaused ==
  (auto_paused_tasks = {}) /\ [][WakeStep]_vars

\* a wake has just resumed one task and left a task paused by hand paused
C16_Witness ==
  /\ last.op = "wake" /\ last.pre = 1
  /\ \E i \in 1..Len(tasks) :
       tasks[i].state = ONGOING /\ Len(tasks[i].work_intervals) = 2
  /\ \E j \in 1..Len(tasks) :
       tasks[j].state = PAUSED /\ tasks[j].work_intervals # <<>>
                               /\ tasks[j].started_at # None

\* what C17 says of a step that moves the focus by d
FocusMovedBy(d) ==
  /\ tasks' = tasks
  /\ IF tasks = <<>> THEN focused_index' = focused_index
     ELSE focused_index' = (focused_index + d) % Len(tasks)

\* C17: focus_down and focus_up set the focus to (focus + 1) mod n and
\* (focus - 1) mod n on n > 0 tasks, wrapping at both ends, and do nothing on
\* an empty list; the tasks and their order stay; and moving the focus back
\* after a focus_down gives the focus there was before it
C17_MoveFocusWraps ==
  [][/\ FocusDown => /\ FocusMovedBy(1)
                     /\ MovedFocus(focused_index', Len(tasks'), -1) = focused_index
     /\ FocusUp => FocusMovedBy(-1)]_vars

\* the focus has just been moved to the first of three tasks (from the second
\* by focus_up, or from the third by focus_down)
C17_Witness ==
  /\ last.op = "move_focus" /\ last.ok
  /\ Len(tasks) = 3
  /\ focused_index = 0
  /\ tasks[1].id = 1 /\ tasks[2].id = 2 /\ tasks[3].id = 3
  /\ \A i \in 1..3 : tasks[i].parent_task_id = None

\* C18: the focus is none (-1) exactly when the active set is empty, and is
\* otherwise an index into it
C18_FocusValid ==
  /\ focused_index = -1 <=> tasks = <<>>
  /\ tasks # <<>> => focused_index \in 0..(Len(tasks) - 1)

\* the last task of the list has just been completed with another task left,
\* and the focus has moved up to that one
C18_Witness ==
  /\ last.op = "complete" /\ last.ok
  /\ tasks # <<>>
  /\ last_completed_index = Len(tasks)
  /\ focused_index = Len(tasks) - 1

\* C19: an accepted submission adds exactly one task, with a fresh id, in
\* state Ongoing, with one work interval, which is open, elapsed 0 and alarm
\* level 0; without parent it stands at the end of the list; the focus is on
\* it; and the list without it is the list as it was
C19_NewTaskAdded ==
  [][(last'.op = "submit" /\ last'.ok) =>
       LET k == focused_index' + 1 IN
       /\ Len(tasks') = Len(tasks) + 1
       /\ k \in 1..Len(tasks')
       /\ RemoveAt(tasks', k) = tasks
       /\ tasks'[k].id \notin ActiveIds
       /\ tasks'[k].state = ONGOING
       /\ Len(tasks'[k].work_intervals) = 1
       /\ tasks'[k].work_intervals[1].end = None
       /\ tasks'[k].elapsed_seconds = 0
       /\ tasks'[k].last_alarm_level = 0
       /\ tasks'[k].parent_task_id = None => k = Len(tasks')]_vars

\* a third task without parent has just been added below a task and its subtask
C19_Witness ==
  /\ last.op = "submit" /\ last.ok
  /\ Len(tasks) = 3
  /\ focused_index = 2
  /\ tasks[3].id = 3
  /\ tasks[3].parent_task_id = None
  /\ tasks[2].parent_task_id = tasks[1].id

\* C20: every task whose parent is in the active set stands after that
\* parent, with nothing but other subtasks of the same parent between them
C20_SubtasksContiguous ==
  \A i \in 1..Len(tasks) : \A j \in 1..Len(tasks) :
    (tasks[i].parent_task_id # None /\ tasks[j].id = tasks[i].parent_task_id) =>
      /\ j < i
      /\ \A k \in (j + 1)..(i - 1) :
           tasks[k].parent_task_id = tasks[i].parent_task_id

\* the transitions of the task lifecycle
AllowedTransitions ==
  {<<BACKLOG, ONGOING>>, <<ONGOING, PAUSED>>, <<PAUSED, ONGOING>>,
   <<ONGOING, COMPLETED>>, <<PAUSED, COMPLETED>>, <<COMPLETED, ONGOING>>}

\* C21: whenever an operation changes the state of a task, whether the task
\* stays in the active set, leaves it by complete_task or comes back by
\* undo_complete, the change is one of the allowed transitions; so no task
\* goes from Backlog straight to Completed or to Paused
C21_AllowedTransitionsOnly ==
  [][/\ \A i \in 1..Len(tasks) : \A j \in 1..Len(tasks') :
          (tasks[i].id = tasks'[j].id /\ tasks[i].state # tasks'[j].state) =>
            <<tasks[i].state, tasks'[j].state>> \in AllowedTransitions
     /\ (last'.op = "complete" /\ last'.ok) =>
          <<FocusedTask.state, last_completed_task'[1].state>> \in AllowedTransitions
     /\ (last'.op = "undo" /\ last'.ok) =>
          <<last_completed_task[1].state, tasks'[focused_index' + 1].state>>
            \in AllowedTransitions]_vars

\* the ids of the entries of history.jsonl
HistoryIds ==
  {history_file.lines[k].id :
     k \in {n \in 1..Len(history_file.lines) : history_file.lines[n].kind = "json"}}

\* C22: a completion whose append to the history fails changes nothing: the
\* active set, the focus and the history are as before, so the task is still
\* in the active set and is in the active set or in the history afterwards
C22_FailedAppendChangesNothing ==
  [][(last'.op = "complete" /\ last'.ok /\ last'.events[1] = HistoryError) =>
       /\ tasks' = tasks
       /\ focused_index' = focused_index
       /\ history_file' = history_file
       /\ FocusedTask.id \in ActiveIds' \cup HistoryIds']_vars

\* is the last non-empty line of history.jsonl an entry of the task kept
\* for undo
TailMatches ==
  /\ history_file.exists
  /\ LET k == LastNonEmpty(history_file.lines) IN
       /\ k > 0
       /\ history_file.lines[k].kind = "json"
       /\ history_file.lines[k].id = last_completed_task[1].id

\* C23: the start/pause, complete and subtask hotkeys with no task focused,
\* undo_complete when the tail of the history is not the task kept for undo,
\* and the subtask hotkey on a first task without parent, leave the active
\* set, the focus, the alarm set, the history and active.json as they are
C23_FaultsAreNoOps ==
  [][(\/ last'.op \in {"toggle", "start", "pause", "complete", "toggle_subtask"}
         /\ ~HasFocus
      \/ last'.op = "undo" /\ last_completed_task # NoTask /\ ~TailMatches
      \/ last'.op = "toggle_subtask" /\ HasFocus /\ focused_index = 0
         /\ FocusedTask.parent_task_id = None) =>
       UNCHANGED <<tasks, focused_index, active_alarms, history_file,
                   active_file>>]_vars

\* an undo has just been refused because the history does not end with the
\* task kept for undo
C23_Witness ==
  /\ last.op = "undo" /\ ~last.ok
  /\ last_completed_task # NoTask
  /\ ~TailMatches
  /\ tasks # <<>>

\* the durations of the closed intervals of a task, summed, and the time
\* its open interval, if it has one, has run
RECURSIVE SumOver(_, _)
SumOver(iv, S) ==
  IF S = {} THEN 0
  ELSE LET k == CHOOSE n \in S : TRUE
       IN (iv[k].end - iv[k].start) + SumOver(iv, S \ {k})
ClosedTime(t) ==
  SumOver(t.work_intervals,
          {k \in 1..Len(t.work_intervals) : t.work_intervals[k].end # None})
OpenTime(t) ==
  IF OpenIntervals(t) = {} THEN 0
  ELSE now - t.work_intervals[CHOOSE k \in OpenIntervals(t) : TRUE].start

\* the tasks the program holds: the active set and the task kept for undo
HeldTasks ==
  {tasks[i] : i \in 1..Len(tasks)} \cup
  {last_completed_task[i] : i \in 1..Len(last_completed_task)}

\* what C24 says of one step about the values of compute_elapsed before and
\* after it
ElapsedStep ==
  \A a \in HeldTasks : \A b \in HeldTasks' :
    (a.id = b.id /\ a.state = b.state) =>
      /\ a.state = ONGOING => compute_elapsed(b)' >= compute_elapsed(a)
      /\ a.state \in {PAUSED, COMPLETED} => compute_elapsed(b)' = compute_elapsed(a)

\* C24 as stated: compute_elapsed never decreases while the task stays
\* Ongoing, stays the same while it stays Paused or Completed, and is the sum
\* of the durations of the closed intervals plus the time from the start of
\* the open interval to now
C24_ElapsedIsIntervalSum ==
  [][/\ ElapsedStep
     /\ \A t \in HeldTasks' :
          compute_elapsed(t)' = ClosedTime(t)' + OpenTime(t)']_vars

\* C24 amended: the same, with the value of a task that has no work intervals
\* being its stored elapsed_seconds
C24_ElapsedIsIntervalSumOrScalar ==
  [][/\ ElapsedStep
     /\ \A t \in HeldTasks' :
          compute_elapsed(t)' = IF t.work_intervals = <<>> THEN t.elapsed_seconds
                                ELSE ClosedTime(t)' + OpenTime(t)']_vars

\* a running task with a closed interval that lasted and an open interval
\* that began before now
C24_Witness ==
  \E i \in 1..Len(tasks) :
    /\ tasks[i].state = ONGOING
    /\ Len(tasks[i].work_intervals) = 2
    /\ tasks[i].work_intervals[1].end > tasks[i].work_intervals[1].start
    /\ tasks[i].work_intervals[2].start < now
    /\ compute_elapsed(tasks[i]) >= 2

\* C25: every operation that changes the active set is followed by a save of
\* the resulting set: start, pause, undo, the subtask toggle, sleep, wake and
\* an accepted submission save before they return; a completion schedules
\* the removal animation whose end saves the set without the completed task
C25_SavedAfterMutation ==
  [][/\ (/\ last'.op \in {"submit", "start", "pause", "undo", "toggle_subtask",
                          "sleep", "wake"}
         /\ tasks' # tasks) =>
          active_file' = save_active_tasks(tasks')
     /\ (last'.op = "on_removed" /\ last'.ok) =>
          active_file' = save_active_tasks(tasks')
     /\ (last'.op = "complete" /\ last'.ok) =>
          pending_removals'[FocusedTask.id] = pending_removals[FocusedTask.id] + 1]_vars

\* C26: a tick adds the increment to elapsed_seconds of every Ongoing task
\* and changes nothing else of it but its alarm level; every other task, the
\* order of the list, the focus and the history stay as they are; the tick
\* emits one tick event, and emits it last, after its alarm events
C26_TickFrame ==
  [][last'.op = "tick" =>
       /\ Len(tasks') = Len(tasks)
       /\ \A i \in 1..Len(tasks) :
            IF tasks[i].state = ONGOING
            THEN /\ tasks'[i].elapsed_seconds =
                      tasks[i].elapsed_seconds + TIMER_INCREMENT_S
                 /\ \A k \in TaskFields \ {"elapsed_seconds", "last_alarm_level"} :
                      tasks'[i][k] = tasks[i][k]
            ELSE tasks'[i] = tasks[i]
       /\ focused_index' = focused_index
       /\ history_file' = history_file
       /\ LET ev == last'.events IN
            /\ ev # <<>>
            /\ ev[Len(ev)] = TickEvent
            /\ \A k \in 1..(Len(ev) - 1) : ev[k].type = "alarm"]_vars

\* a tick has just counted for a running task, fired its alarm and left a
\* paused task alone
C26_Witness ==
  /\ last.op = "tick"
  /\ Len(last.events) = 2
  /\ \E i \in 1..Len(tasks) : tasks[i].state = ONGOING /\ tasks[i].last_alarm_level > 0
  /\ \E j \in 1..Len(tasks) : tasks[j].state = PAUSED

\* what C27 says of one step
AlarmLevelStep ==
  \A i \in 1..Len(tasks) : \A j \in 1..Len(tasks') :
    tasks[i].id = tasks'[j].id =>
      /\ tasks'[j].last_alarm_level >= 0
      /\ (tasks[i].state = ONGOING /\ tasks'[j].state = ONGOING) =>
           tasks'[j].last_alarm_level >= tasks[i].last_alarm_level
      /\ tasks'[j].last_alarm_level < tasks[i].last_alarm_level =>
           /\ last'.op \in {"pause", "sleep"}
           /\ tasks[i].state = ONGOING
           /\ tasks'[j].state = PAUSED

\* C27: last_alarm_level is never negative, does not go down in a step that
\* finds and leaves the task Ongoing, and goes down only when the task is
\* paused, by hand or by sleep
C27_AlarmLevelMonotone ==
  (\A i \in 1..Len(tasks) : tasks[i].last_alarm_level >= 0)
  /\ [][AlarmLevelStep]_vars

\* the alarms have just been dismissed while a task whose level 2 fired goes
\* on running
C27_Witness ==
  /\ last.op = "dismiss"
  /\ \E i \in 1..Len(tasks) :
       tasks[i].state = ONGOING /\ tasks[i].last_alarm_level = 2

CompletionSignals(events) ==
  SelectSeq(events, LAMBDA e : e.type \in {"success", "ambitious_success"})

\* C29: a completion emits exactly one of the two completion signals, the
\* ambitious one if and only if the task has an ambitious time and its
\* elapsed time is at most that time
C29_AmbitiousSignal ==
  [][(CompleteTask /\ HasFocus) =>
       LET t == FocusedTask
           within == /\ t.ambitious_seconds # None
                     /\ t.elapsed_seconds <= t.ambitious_seconds
       IN /\ Len(CompletionSignals(last'.events)) = 1
          /\ CompletionSignals(last'.events)[1].type =
               IF within THEN "ambitious_success" ELSE "success"]_vars

\* a task has just been completed exactly at its ambitious time
C29_Witness ==
  /\ last.op = "complete"
  /\ last.ok
  /\ last_completed_task # NoTask
  /\ last_completed_task[1].ambitious_seconds # None
  /\ last_completed_task[1].elapsed_seconds = last_completed_task[1].ambitious_seconds
  /\ last.events = <<[type |-> "ambitious_success"]>>

\* a task has just been completed after its ambitious time
C29_WitnessLate ==
  /\ last.op = "complete"
  /\ last.ok
  /\ last_completed_task # NoTask
  /\ last_completed_task[1].ambitious_seconds # None
  /\ last_completed_task[1].elapsed_seconds > last_completed_task[1].ambitious_seconds
  /\ last.events = <<[type |-> "success"]>>

\* the subtasks of the task parent_id among ts, in their order
SubtasksOf(ts, parent_id) ==
  SelectSeq(ts, LAMBDA t : t.parent_task_id = parent_id)

\* the steps that complete a task and that put a completed task back
CompleteStep == CompleteTask /\ HasFocus
UndoStep == UndoComplete /\ last'.op = "undo" /\ last'.ok

\* C30: completing a task and undoing its completion leave its subtasks in
\* the active set, each with all its fields as they were, in the same order
C30_NoCascade ==
  [][/\ CompleteStep =>
          SubtasksOf(tasks', FocusedTask.id) = SubtasksOf(tasks, FocusedTask.id)
     /\ UndoStep =>
          SubtasksOf(tasks', last_completed_task[1].id) =
            SubtasksOf(tasks, last_completed_task[1].id)]_vars

\* a parent has just been completed and a subtask of it is in the active set
C30_Witness ==
  /\ last.op = "complete"
  /\ last.ok
  /\ last_completed_task # NoTask
  /\ SubtasksOf(tasks, last_completed_task[1].id) # <<>>

\* the completion of a parent has just been undone, its subtask is there
C30_WitnessUndo ==
  /\ last.op = "undo"
  /\ last.ok
  /\ HasFocus
  /\ SubtasksOf(tasks, FocusedTask.id) # <<>>

\* every id of the alarm set is the id of an Ongoing task of the active set
AlarmsAreOngoing ==
  \A id \in active_alarms :
    \E i \in 1..Len(tasks) : tasks[i].id = id /\ tasks[i].state = ONGOING

\* how a step may change the alarm set
AlarmSetStep ==
  /\ \A id \in active_alarms' \ active_alarms :
       /\ last'.op = "tick"
       /\ \E k \in 1..Len(last'.events) :
            /\ last'.events[k].type = "alarm"
            /\ last'.events[k].task_id = id
       /\ \E i \in 1..Len(tasks) : tasks[i].id = id /\ tasks[i].state = ONGOING
  /\ (ToggleStartPause /\ HasFocus /\ FocusedTask.state = ONGOING) =>
       FocusedTask.id \notin active_alarms'
  /\ (CompleteTask /\ HasFocus) => FocusedTask.id \notin active_alarms'
  /\ (OnSleep \/ DismissAlarm) => active_alarms' = {}

\* C31: the alarm set holds only ids of Ongoing tasks of the active set; an
\* id enters it only when an alarm fires for an Ongoing task and leaves it
\* when the task is paused or completed, on sleep and on dismiss_alarm
C31_AlarmSetOngoing == []AlarmsAreOngoing /\ [][AlarmSetStep]_vars

\* a task whose alarm was ringing has just been paused while the alarm of
\* another task rings on
C31_Witness ==
  /\ last.op = "pause"
  /\ last.pre > 0
  /\ HasFocus
  /\ FocusedTask.state = PAUSED
  /\ FocusedTask.id \notin active_alarms
  /\ active_alarms # {}

\* the step of a submission that created a task
CreateStep == Submit /\ last'.op = "submit" /\ last'.ok

\* the 1-based places of the task with this id in the active set
PlacesOf(id) == {i \in 1..Len(tasks) : tasks[i].id = id}

\* C32: a task created as subtask of P goes right after P and the run of
\* subtasks of P that directly follows P; if P is no longer in the active
\* set it goes to the end and keeps P as parent; the focus is on the index
\* the task was inserted at
C32_SubtaskInsertion ==
  [][CreateStep =>
       LET k == focused_index'
           new == tasks'[k + 1]
           P == new.parent_task_id
       IN /\ k \in 0..Len(tasks)
          /\ new.id = next_id
          /\ RemoveAt(tasks', k + 1) = tasks
          /\ (P # None /\ PlacesOf(P) # {}) =>
               \E p \in PlacesOf(P) :
                 /\ p <= k
                 /\ \A j \in (p + 1)..k : tasks[j].parent_task_id = P
                 /\ k < Len(tasks) => tasks[k + 1].parent_task_id # P
          /\ (P # None /\ PlacesOf(P) = {}) =>
               k = Len(tasks) /\ P = dialog.parent_task_id]_vars

\* a subtask has just been created after an earlier subtask of its parent
C32_Witness ==
  /\ last.op = "submit"
  /\ last.ok
  /\ focused_index >= 2
  /\ focused_index < Len(tasks)
  /\ FocusedTask.parent_task_id # None
  /\ tasks[focused_index].parent_task_id = FocusedTask.parent_task_id
  /\ \E i \in 1..(focused_index - 1) : tasks[i].id = FocusedTask.parent_task_id

\* a subtask has just been created of a parent that was completed while the
\* dialog was open
C32_WitnessOrphan ==
  /\ last.op = "submit"
  /\ last.ok
  /\ HasFocus
  /\ focused_index = Len(tasks) - 1
  /\ FocusedTask.parent_task_id # None
  /\ PlacesOf(FocusedTask.parent_task_id) = {}

\* a subtask has just been created in front of a task that is not a subtask
\* of its parent
C32_WitnessMiddle ==
  /\ last.op = "submit"
  /\ last.ok
  /\ HasFocus
  /\ focused_index < Len(tasks) - 1
  /\ FocusedTask.parent_task_id # None
  /\ PlacesOf(FocusedTask.parent_task_id) # {}

\* C33: every task of the active set has an entry in the overlay's
\* task_widgets, whatever the order of complete, undo and the end of the
\* removal animation
C33_ActiveTasksHaveWidgets ==
  \A i \in 1..Len(tasks) : tasks[i].id \in task_widgets

\* the ids of the records of active.json
PersistedActiveIds ==
  {active_file.recs[i].id :
     i \in {j \in 1..Len(active_file.recs) : IsObject(active_file.recs[j])}}

\* C34: no task id is both in active.json and in history.jsonl, in any state
\* the two files can be in
C34_FilesDisjoint ==
  PersistedActiveIds \cap HistoryIds = {}

\* how often the id is in the active set, and in the history
TimesActive(id) == Cardinality(PlacesOf(id))
TimesInHistory(id) ==
  Cardinality({n \in 1..Len(history_file.lines) :
                 /\ history_file.lines[n].kind = "json"
                 /\ history_file.lines[n].id = id})

SoundIffAlarms == sound_loop_active <=> (active_alarms # {})

\* how a step may change the alarm sound
SoundStep ==
  /\ (active_alarms = {} /\ active_alarms' # {}) =>
       ~sound_loop_active /\ sound_loop_active'
  /\ (active_alarms # {} /\ active_alarms' # {}) =>
       sound_loop_active /\ sound_loop_active'
  /\ active_alarms' = {} => ~sound_loop_active'

\* C36: the alarm sound loops if and only if the alarm set is not empty: it
\* starts when the first id enters the empty set, goes on while an id is
\* left, and stops when pause, complete, sleep or dismiss_alarm empty the set
C36_SoundIffAlarms == []SoundIffAlarms /\ [][SoundStep]_vars

\* the alarms of two tasks are in the set and the sound loops
C36_Witness ==
  /\ Cardinality(active_alarms) = 2
  /\ sound_loop_active

\* the completion of the one task whose alarm rang has stopped the sound
C36_WitnessStopped ==
  /\ last.op = "complete"
  /\ last.ok
  /\ last_completed_task # NoTask
  /\ last_completed_task[1].last_alarm_level > 0
  /\ tasks # <<>>
  /\ active_alarms = {}
  /\ ~sound_loop_active

\* C37: with no user command at all, every task, Ongoing when the program
\* started and so Ongoing when the system went to sleep, is Ongoing after a
\* wake, however many times the sleep was delivered before it
C37_WakeRestoresOngoing ==
  [][OnWake => \A i \in 1..Len(tasks') : tasks'[i].state = ONGOING]_vars

\* C38: the task loaded without work intervals and with the stored elapsed
\* time E has compute_elapsed at least E, whatever was done to it since
C38_LegacyElapsedKept ==
  \A i \in 1..Len(tasks) :
    tasks[i].id = LegacyId =>
      compute_elapsed(tasks[i]) >= LegacyDict(LegacyId).elapsed_seconds

\* the task with this id is in the active set and Ongoing
IsOngoing(id) ==
  \E i \in 1..Len(tasks) : tasks[i].id = id /\ tasks[i].state = ONGOING

\* the alarm levels the ticks can reach within MaxElapsedAlarm
LiveLevels == 1..(MaxElapsedAlarm \div (MIN_TASK_MINUTES * UnitsPerMinute))

\* no alarm of a task that has run without a break was fired before the
\* alarm of the level below it
LevelsInOrder ==
  \A i \in 1..Len(tasks) :
    (tasks[i].state = ONGOING /\ Len(tasks[i].work_intervals) <= 1) =>
      /\ \A L \in LiveLevels :
           <<tasks[i].id, L>> \in fired => \A K \in 1..L : <<tasks[i].id, K>> \in fired
      /\ \A L \in 1..tasks[i].last_alarm_level : <<tasks[i].id, L>> \in fired

\* C39: with the ticks coming, a task that stays Ongoing has its alarm of
\* level 1 fired in the end and then the alarm of every higher level, each
\* after the one below it
C39_AlarmsEventuallyFire ==
  /\ \A id \in 1..MaxAlarmTasks : \A L \in LiveLevels :
       ([]IsOngoing(id)) => <>(<<id, L>> \in fired)
  /\ []LevelsInOrder

\* a task that has run without a break has had its alarms of the levels 1
\* and 2 fired
C39_Witness ==
  \E i \in 1..Len(tasks) :
    /\ tasks[i].state = ONGOING
    /\ Len(tasks[i].work_intervals) = 1
    /\ tasks[i].last_alarm_level = 2
    /\ {<<tasks[i].id, 1>>, <<tasks[i].id, 2>>} \subseteq fired

\* C40: completing a task that is not the last leaves the focus index as it
\* is, so the focus is on the task that followed; completing the last task
\* moves the focus to the new last task; completing the only task leaves no
\* focus
C40_FocusAfterComplete ==
  [][CompleteStep =>
       LET k == focused_index
           n == Len(tasks)
       IN /\ k < n - 1 =>
               /\ focused_index' = k
               /\ tasks'[focused_index' + 1] = tasks[k + 2]
          /\ (k = n - 1 /\ n > 1) =>
               /\ focused_index' = Len(tasks') - 1
               /\ tasks'[focused_index' + 1] = tasks[n - 1]
          /\ n = 1 => focused_index' = -1 /\ tasks' = <<>>]_vars

\* the middle one of three tasks has just been completed and the focus is on
\* the task that followed it
C40_Witness ==
  /\ last.op = "complete"
  /\ last.ok
  /\ Len(tasks) = 2
  /\ last_completed_index = 1
  /\ focused_index = 1

\* the last of several tasks has just been completed
C40_WitnessLast ==
  /\ last.op = "complete"
  /\ last.ok
  /\ Len(tasks) = 2
  /\ last_completed_index = 2
  /\ focused_index = 1

\* the only task has just been completed
C40_WitnessEmpty ==
  /\ last.op = "complete"
  /\ last.ok
  /\ tasks = <<>>
  /\ focused_index = -1

====
